---- MODULE Spec2Model ----
(***************************************************************************)
(* Model of the navigation site's admin API (src/src/api/auth.js,          *)
(* handleAdminAPI), its public listing API (src/src/api/public.js), the    *)
(* D1 schema (src/db.sql) and the drag-and-drop handlers of the admin      *)
(* page (src/unnamed/part_001).                                            *)
(*                                                                         *)
(* A row of the categories table is [user_id, sort_order], a row of the    *)
(* links table is [user_id, category_id, sort_order]; both tables are      *)
(* functions from the AUTOINCREMENT primary key to the row.  The text      *)
(* columns (name, url, icon) are written by the same statements under the  *)
(* same WHERE clauses as sort_order; the model keeps only whether the      *)
(* request body carries them (hasName), which decides the 400 answers.     *)
(*                                                                         *)
(* A request is handled in one slot of req.  Every D1 statement the        *)
(* handler awaits is one action, so the statements of two requests         *)
(* interleave as they do between two awaits of the Worker.  Slot Observed  *)
(* holds the request whose response is looked at: the response stays in    *)
(* the slot until it leaves the Worker.  Slot Concurrent holds a request   *)
(* of any user that runs at the same time; its response is not recorded.   *)
(*                                                                         *)
(* Spec runs the requests one after the other, SpecRace runs two requests  *)
(* at a time on a smaller store.  SpecList reads the listings in slot      *)
(* Observed while the requests of slot Concurrent write the store.         *)
(* SpecUpdates runs the updates of two requests at a time on rows that     *)
(* slot Concurrent creates.                                                *)
(*                                                                         *)
(* SpecPage runs one admin page next to the category requests its user     *)
(* sends from elsewhere (another tab, or the page's own save and delete    *)
(* buttons).  The handlers treat every user alike, so the page is the      *)
(* administrator's.  Each drag-and-drop event handler is one action.  An   *)
(* API call of the page is two actions: the code up to the await, and the  *)
(* Worker's answer together with the code after the await.  SpecPageLive   *)
(* is SpecPage with every request of the page answered in the end.         *)
(* SpecPaging runs the page's category clicks and page buttons while       *)
(* earlier loadLinks calls are unanswered; the page opens with whatever    *)
(* pages of categories localStorage holds.                                 *)
(*                                                                         *)
(* A row of the users table is [username, password_hash, status].          *)
(* SpecUsers runs the user-management requests one after the other,        *)
(* SpecUserRace runs the three statements of a user deletion while the     *)
(* users' create requests interleave, and SpecAuth runs requests through   *)
(* the Worker's fetch, which tests the token before handleAdminAPI.        *)
(***************************************************************************)
EXTENDS Integers, Sequences, FiniteSets, TLC

\* ---------------------------------------------------------------- bounds
NumUsers == 2
MaxCats == 2
MaxLinks == 2
MaxSort == 1
\* rows created under SpecRace
RaceCats == 1
RaceLinks == 1
\* the highest page a listing request asks for
MaxPage == 2
\* the loadLinks calls of the page that may await their answer together
MaxLoads == 2
\* rows ever inserted into table users
MaxUsers == 3
\* the latest second of the clock, and of a token's exp
MaxTime == 1

\* ------------------------------------------------------ program constants
\* const isSuperAdmin = userId === 1
SuperAdminId == 1

UserIds == 1..NumUsers
CatIds == 1..MaxCats
LinkIds == 1..MaxLinks
SortOrders == 0..MaxSort
Observed == "observed"
Concurrent == "concurrent"
Reqs == {Observed, Concurrent}
Positions == {"before", "after"}
Pages == 0..MaxPage
\* Math.floor(Date.now() / 1000)
Times == 0..MaxTime
\* the ids a /api/admin/users/:id path names
TargetIds == 1..MaxUsers
\* username and password of a request body, "" when the field is missing
UsernameInputs == {"", "ab", "user2", "user3"}
PasswordInputs == {"", "abc", "secret1"}
\* status of a request body; Undefined when the field is missing
Undefined == -1
StatusInputs == {Undefined, 0, 1}
\* const LINKS_PER_PAGE = 15
LINKS_PER_PAGE == 15

VARIABLES
    users,        \* table users: id -> [username, password_hash, status]
    nextUserId,   \* AUTOINCREMENT counter of users
    categories,   \* table categories: id -> [user_id, sort_order]
    links,        \* table links: id -> [user_id, category_id, sort_order]
    nextCatId,    \* AUTOINCREMENT counter of categories
    nextLinkId,   \* AUTOINCREMENT counter of links
    req,          \* the requests being handled, one per slot
    \* the admin page (one browser tab)
    token,                      \* user id of the page's token, 0 before the page has checked it
    pageCategories,             \* the page's categories: ids in the order loaded
    pageLinks,                  \* the page's links: ids in the order loaded
    selectedCategoryId,         \* 0 is null
    activeCategory,             \* localStorage adminActiveCategory, 0 is absent
    draggingCategoryId,         \* 0 is null
    draggingLinkId,             \* 0 is null
    isCategoryReorderInFlight,
    isReorderInFlight,
    dragSession,                \* the browser's drag-and-drop operation
    fetches,                    \* the page's API requests on their way
    linkPagination,             \* [page, perPage, totalPages, total]
    categoryPage,               \* localStorage adminCategoryPage:<id>, id -> stored page
    linkLoads                   \* the loadLinks calls awaiting their answer

worker == <<users, nextUserId, categories, links, nextCatId, nextLinkId, req>>

page ==
    <<token, pageCategories, pageLinks, selectedCategoryId, activeCategory,
      draggingCategoryId, draggingLinkId, isCategoryReorderInFlight,
      isReorderInFlight, dragSession, fetches, linkPagination, categoryPage, linkLoads>>

\* what the page knows of the pages of its link table
paging == <<linkPagination, categoryPage, linkLoads>>

vars == <<worker, page>>

\* ------------------------------------------------------------- responses
\* jsonResponse(data, status = 200)
OK == 200
\* errorResponse(message, status = 400)
BadRequest == 400
\* errorResponse('... not found or access denied', 404), errorResponse('Not found', 404)
NotFound == 404
\* errorResponse('Unauthorized - ...', 401)
Unauthorized == 401
\* errorResponse('Access denied - Super admin only', 403)
Forbidden == 403
\* corsResponse(): status 204
NoContent == 204
\* errorResponse('Failed to ...: ' + e.message, 500)
ServerError == 500

Idle ==
    [op |-> "idle", pc |-> "idle", user |-> 0, id |-> 0, cat |-> 0, sort |-> 0,
     target |-> 0, pos |-> "", page |-> 0, body |-> <<>>, status |-> 0, data |-> <<>>]

Request(op, u, id, cat, sort) ==
    [op |-> op, pc |-> "start", user |-> u, id |-> id, cat |-> cat, sort |-> sort,
     target |-> 0, pos |-> "", page |-> 0, body |-> <<>>, status |-> 0, data |-> <<>>]

\* the response of the request r of slot p
Done(p, r, status) ==
    IF p = Observed THEN [r EXCEPT !.pc = "done", !.status = status] ELSE Idle

\* a response leaves the Worker before the next statement of any request runs
NoResponse == \A q \in Reqs : req[q].pc # "done"

Ready(p) == req[p].pc = "idle" /\ NoResponse

\* --------------------------------------------------------------- the store
\* rows of a scope
CategoriesOf(u) == {c \in DOMAIN categories : categories[c].user_id = u}

LinksOf(u, c) ==
    {l \in DOMAIN links : links[l].user_id = u /\ links[l].category_id = c}

Restrict(f, S) == [x \in S |-> f[x]]

\* every sequence that holds each element of S once
Orderings(S) ==
    {s \in [1..Cardinality(S) -> S] :
        \A i, j \in 1..Cardinality(S) : i # j => s[i] # s[j]}

\* ORDER BY sort_order ASC: the rows of S in an order in which sort_order never
\* decreases; SQL leaves the order of rows with equal keys to the engine
OrderBySortOrder(S, table) ==
    {s \in Orderings(S) :
        \A i, j \in 1..Cardinality(S) :
            i < j => table[s[i]].sort_order <= table[s[j]].sort_order}

\* ORDER BY c.sort_order ASC, l.sort_order ASC over links JOIN categories
OrderByCategoryThenSortOrder(S) ==
    {s \in Orderings(S) :
        \A i, j \in 1..Cardinality(S) :
            i < j =>
                LET ci == categories[links[s[i]].category_id].sort_order
                    cj == categories[links[s[j]].category_id].sort_order
                IN  \/ ci < cj
                    \/ ci = cj /\ links[s[i]].sort_order <= links[s[j]].sort_order}

\* SELECT l.*, c.name as category_name FROM links l JOIN categories c
\* ON l.category_id = c.id WHERE l.user_id = ? ORDER BY c.sort_order ASC, l.sort_order ASC
SelectAdminLinks(u) ==
    OrderByCategoryThenSortOrder(
        {l \in DOMAIN links :
            links[l].user_id = u /\ links[l].category_id \in DOMAIN categories})

\* a JSON array in a response body
Array(seq) == [length |-> Len(seq), items |-> seq]

\* mutation: the ownership check without its id predicate
SelectCategory_AnyId(id, u) == {c \in DOMAIN categories : categories[c].user_id = u}

\* mutation: the ownership check without its user_id predicate
SelectCategory_AnyOwner(id, u) == {c \in DOMAIN categories : c = id}

\* SELECT id FROM categories WHERE id = ? AND user_id = ?
\* (the ownership check of the category delete and of the link create and update)
SelectCategory(id, u) ==
    {c \in DOMAIN categories : c = id /\ categories[c].user_id = u}

\* mutation: the references of a link row are not enforced
LinkForeignKeys_NotEnforced(u, cat) == TRUE

\* links.category_id REFERENCES categories(id), links.user_id REFERENCES users(id):
\* an INSERT or UPDATE of a link row that breaks a reference fails
LinkForeignKeys(u, cat) == u \in DOMAIN users /\ cat \in DOMAIN categories

\* mutation: the reference of a category row is not enforced
CategoryForeignKeys_NotEnforced(u) == TRUE

\* categories.user_id REFERENCES users(id)
CategoryForeignKeys(u) == u \in DOMAIN users

\* links.category_id REFERENCES categories(id) ON DELETE CASCADE:
\* the links left once the categories gone have been deleted
CascadeLinks(gone) ==
    Restrict(links, {l \in DOMAIN links : links[l].category_id \notin gone})

\* the usernames of the rows the store starts with: 'admin' is the row
\* db.sql inserts
InitialUsername(u) == IF u = 1 THEN "admin" ELSE IF u = 2 THEN "user2" ELSE "user3"

\* String.prototype.length of the strings that requests carry
Length(str) ==
    CASE str = "" -> 0
      [] str = "ab" -> 2
      [] str = "abc" -> 3
      [] str \in {"admin", "user2", "user3"} -> 5
      [] str = "secret1" -> 7
      [] str = "admin123" -> 8

\* hashPassword(password): the PBKDF2 hash of the password under a fresh
\* salt; the salt is left out, the hash stands for the password it is of
hashPassword(password) == [pbkdf2 |-> password]

\* the page's API calls
Fetches == {"loadCategories", "reorderCategory", "reorderLink"}

\* a call is on its way ("sent") from apiRequest until the Worker has answered it and
\* the code after the await has run; the answer takes no time to travel back
NoFetch == [pc |-> "none", body |-> << >>]

\* let linkPagination = { page: 1, perPage: LINKS_PER_PAGE, totalPages: 1, total: 0 }
NoPagination == [page |-> 1, perPage |-> LINKS_PER_PAGE, totalPages |-> 1, total |-> 0]

\* the schema just created; the page's globals as declared; stored is what
\* localStorage holds of the pages of categories when the page opens
Opened(stored) ==
    /\ users = [u \in UserIds |->
                    [username |-> InitialUsername(u),
                     password_hash |-> hashPassword("admin123"),
                     status |-> 1]]
    /\ nextUserId = NumUsers + 1
    /\ categories = << >>
    /\ links = << >>
    /\ nextCatId = 1
    /\ nextLinkId = 1
    /\ req = [p \in Reqs |-> Idle]
    /\ token = 0
    /\ pageCategories = << >>
    /\ pageLinks = << >>
    /\ selectedCategoryId = 0
    /\ activeCategory = 0
    /\ draggingCategoryId = 0
    /\ draggingLinkId = 0
    /\ isCategoryReorderInFlight = FALSE
    /\ isReorderInFlight = FALSE
    /\ dragSession = "none"
    /\ fetches = [k \in Fetches |-> NoFetch]
    /\ linkPagination = NoPagination
    /\ categoryPage = stored
    /\ linkLoads = << >>

\* the page opened in a browser that has stored nothing yet
Init == Opened(<< >>)

\* the page opened in a browser whose localStorage holds pages of categories
\* from earlier sessions; 0 stands for any text that is not a positive number
InitStored == \E stored \in [CatIds -> Pages] : Opened(stored)

\* ------------------------------------------------- category management
\* POST /api/admin/categories
CreateCategory(p, u, hasName, sort) ==
    /\ Ready(p)
    /\ LET r == Request("createCategory", u, 0, 0, sort) IN
       IF ~hasName
       THEN /\ req' = [req EXCEPT ![p] = Done(p, r, BadRequest)]
            /\ UNCHANGED <<categories, nextCatId>>
       ELSE IF ~CategoryForeignKeys(u)
       THEN /\ req' = [req EXCEPT ![p] = Done(p, r, ServerError)]
            /\ UNCHANGED <<categories, nextCatId>>
       ELSE /\ categories' = (nextCatId :> [user_id |-> u, sort_order |-> sort]) @@ categories
            /\ nextCatId' = nextCatId + 1
            /\ req' = [req EXCEPT ![p] = Done(p, [r EXCEPT !.id = nextCatId], OK)]
    /\ UNCHANGED <<users, nextUserId, links, nextLinkId>>
    /\ UNCHANGED page

\* GET /api/admin/categories and GET /api/categories:
\* SELECT ... FROM categories WHERE user_id = ? ORDER BY sort_order ASC
ListCategories(p, u) ==
    /\ Ready(p)
    /\ \E rows \in OrderBySortOrder(CategoriesOf(u), categories) :
          req' = [req EXCEPT ![p] =
                     Done(p, [Request("listCategories", u, 0, 0, 0) EXCEPT !.data = rows], OK)]
    /\ UNCHANGED <<users, nextUserId, categories, links, nextCatId, nextLinkId>>
    /\ UNCHANGED page

\* mutation: the category update without its user_id predicate
UpdateCategoryWhere_AnyOwner(id, u) == {c \in DOMAIN categories : c = id}

\* UPDATE categories SET name = ?, sort_order = ? WHERE id = ? AND user_id = ?
\* the rows the WHERE clause matches
UpdateCategoryWhere(id, u) ==
    {c \in DOMAIN categories : c = id /\ categories[c].user_id = u}

\* PUT /api/admin/categories/:id
UpdateCategory(p, u, id, hasName, sort) ==
    /\ Ready(p)
    /\ LET r == Request("updateCategory", u, id, 0, sort)
           changed == UpdateCategoryWhere(id, u) IN
       IF ~hasName
       THEN /\ req' = [req EXCEPT ![p] = Done(p, r, BadRequest)]
            /\ UNCHANGED categories
       ELSE /\ categories' = [c \in DOMAIN categories |->
                                 IF c \in changed
                                 THEN [categories[c] EXCEPT !.sort_order = sort]
                                 ELSE categories[c]]
            \* result.meta.changes === 0
            /\ req' = [req EXCEPT ![p] =
                          Done(p, r, IF Cardinality(changed) = 0 THEN NotFound ELSE OK)]
    /\ UNCHANGED <<users, nextUserId, links, nextCatId, nextLinkId>>
    /\ UNCHANGED page

\* DELETE /api/admin/categories/:id, first statement: verify ownership
DeleteCategorySelect(p, u, id) ==
    /\ Ready(p)
    /\ LET r == Request("deleteCategory", u, id, 0, 0) IN
       req' = [req EXCEPT ![p] =
                  IF SelectCategory(id, u) = {} THEN Done(p, r, NotFound)
                  ELSE [r EXCEPT !.pc = "deleteLinks"]]
    /\ UNCHANGED <<users, nextUserId, categories, links, nextCatId, nextLinkId>>
    /\ UNCHANGED page

\* mutation: the delete of the links without its category_id predicate
DeleteLinksWhere_AllOfUser(cat, u) == {l \in DOMAIN links : links[l].user_id = u}

\* DELETE FROM links WHERE category_id = ? AND user_id = ?
\* the rows the WHERE clause matches
DeleteLinksWhere(cat, u) ==
    {l \in DOMAIN links : links[l].category_id = cat /\ links[l].user_id = u}

\* DELETE /api/admin/categories/:id, second statement
DeleteCategoryLinks(p) ==
    /\ req[p].op = "deleteCategory" /\ req[p].pc = "deleteLinks" /\ NoResponse
    /\ links' = Restrict(links, DOMAIN links \ DeleteLinksWhere(req[p].id, req[p].user))
    /\ req' = [req EXCEPT ![p].pc = "deleteRow"]
    /\ UNCHANGED <<users, nextUserId, categories, nextCatId, nextLinkId>>
    /\ UNCHANGED page

\* DELETE FROM categories WHERE id = ? AND user_id = ?
\* the rows the WHERE clause matches
DeleteCategoryWhere(id, u) ==
    {c \in DOMAIN categories : c = id /\ categories[c].user_id = u}

\* DELETE /api/admin/categories/:id, third statement
DeleteCategoryRow(p) ==
    /\ req[p].op = "deleteCategory" /\ req[p].pc = "deleteRow" /\ NoResponse
    /\ LET gone == DeleteCategoryWhere(req[p].id, req[p].user) IN
          /\ categories' = Restrict(categories, DOMAIN categories \ gone)
          /\ links' = CascadeLinks(gone)
    /\ req' = [req EXCEPT ![p] = Done(p, req[p], OK)]
    /\ UNCHANGED <<users, nextUserId, nextCatId, nextLinkId>>
    /\ UNCHANGED page

\* ----------------------------------------------------- link management
\* POST /api/admin/links, up to the ownership check; cat = 0 is a body
\* without category_id
CreateLinkSelect(p, u, cat, hasName, sort) ==
    /\ Ready(p)
    /\ LET r == Request("createLink", u, 0, cat, sort) IN
       req' = [req EXCEPT ![p] =
                  IF cat = 0 \/ ~hasName THEN Done(p, r, BadRequest)
                  ELSE IF SelectCategory(cat, u) = {} THEN Done(p, r, NotFound)
                  ELSE [r EXCEPT !.pc = "insert"]]
    /\ UNCHANGED <<users, nextUserId, categories, links, nextCatId, nextLinkId>>
    /\ UNCHANGED page

\* INSERT INTO links (user_id, category_id, ..., sort_order) VALUES (...)
CreateLinkInsert(p) ==
    /\ req[p].op = "createLink" /\ req[p].pc = "insert" /\ NoResponse
    /\ IF LinkForeignKeys(req[p].user, req[p].cat)
       THEN /\ links' = (nextLinkId :> [user_id |-> req[p].user,
                                         category_id |-> req[p].cat,
                                         sort_order |-> req[p].sort]) @@ links
            /\ nextLinkId' = nextLinkId + 1
            /\ req' = [req EXCEPT ![p] = Done(p, [req[p] EXCEPT !.id = nextLinkId], OK)]
       ELSE /\ req' = [req EXCEPT ![p] = Done(p, req[p], ServerError)]
            /\ UNCHANGED <<links, nextLinkId>>
    /\ UNCHANGED <<users, nextUserId, categories, nextCatId>>
    /\ UNCHANGED page

\* GET /api/links?category_id=: SELECT ... FROM links l JOIN categories c
\* ON l.category_id = c.id WHERE l.user_id = ? AND l.category_id = ?
\* ORDER BY l.sort_order ASC
ListLinks(p, u, cat) ==
    /\ Ready(p)
    /\ \E rows \in OrderBySortOrder(
                      {l \in LinksOf(u, cat) : cat \in DOMAIN categories}, links) :
          req' = [req EXCEPT ![p] =
                     Done(p, [Request("listLinks", u, 0, cat, 0) EXCEPT !.data = rows], OK)]
    /\ UNCHANGED <<users, nextUserId, categories, links, nextCatId, nextLinkId>>
    /\ UNCHANGED page

\* PUT /api/admin/links/:id, up to the ownership check of the named category
UpdateLinkSelect(p, u, id, cat, hasName, sort) ==
    /\ Ready(p)
    /\ LET r == Request("updateLink", u, id, cat, sort) IN
       req' = [req EXCEPT ![p] =
                  IF cat = 0 \/ ~hasName THEN Done(p, r, BadRequest)
                  ELSE IF SelectCategory(cat, u) = {} THEN Done(p, r, NotFound)
                  ELSE [r EXCEPT !.pc = "update"]]
    /\ UNCHANGED <<users, nextUserId, categories, links, nextCatId, nextLinkId>>
    /\ UNCHANGED page

\* mutation: the link update without its id predicate
UpdateLinkWhere_AllOfUser(id, u) == {l \in DOMAIN links : links[l].user_id = u}

\* mutation: the link update without its user_id predicate
UpdateLinkWhere_AnyOwner(id, u) == {l \in DOMAIN links : l = id}

\* UPDATE links SET category_id = ?, ..., sort_order = ? WHERE id = ? AND user_id = ?
\* the rows the WHERE clause matches
UpdateLinkWhere(id, u) ==
    {l \in DOMAIN links : l = id /\ links[l].user_id = u}

\* PUT /api/admin/links/:id, the update
UpdateLinkWrite(p) ==
    /\ req[p].op = "updateLink" /\ req[p].pc = "update" /\ NoResponse
    /\ LET changed == UpdateLinkWhere(req[p].id, req[p].user) IN
       IF changed # {} /\ \E l \in changed : ~LinkForeignKeys(links[l].user_id, req[p].cat)
       THEN /\ req' = [req EXCEPT ![p] = Done(p, req[p], ServerError)]
            /\ UNCHANGED links
       ELSE /\ links' = [l \in DOMAIN links |->
                            IF l \in changed
                            THEN [links[l] EXCEPT !.category_id = req[p].cat,
                                                  !.sort_order = req[p].sort]
                            ELSE links[l]]
            \* result.meta.changes === 0
            /\ req' = [req EXCEPT ![p] =
                          Done(p, req[p], IF Cardinality(changed) = 0 THEN NotFound ELSE OK)]
    /\ UNCHANGED <<users, nextUserId, categories, nextCatId, nextLinkId>>
    /\ UNCHANGED page

\* mutation: the link delete without its user_id predicate
DeleteLinkWhere_AnyOwner(id, u) == {l \in DOMAIN links : l = id}

\* DELETE FROM links WHERE id = ? AND user_id = ?
\* the rows the WHERE clause matches
DeleteLinkWhere(id, u) ==
    {l \in DOMAIN links : l = id /\ links[l].user_id = u}

\* DELETE /api/admin/links/:id
DeleteLink(p, u, id) ==
    /\ Ready(p)
    /\ LET gone == DeleteLinkWhere(id, u) IN
          /\ links' = Restrict(links, DOMAIN links \ gone)
          \* result.meta.changes === 0
          /\ req' = [req EXCEPT ![p] =
                        Done(p, Request("deleteLink", u, id, 0, 0),
                             IF Cardinality(gone) = 0 THEN NotFound ELSE OK)]
    /\ UNCHANGED <<users, nextUserId, categories, nextCatId, nextLinkId>>
    /\ UNCHANGED page

\* GET /api/admin/links?category_id=&page=&per_page=: the handler reads no
\* query parameter and answers { success: true, data: result.results }, the
\* array of every link of the user
ListAdminLinks(p, u, cat, pg) ==
    /\ Ready(p)
    /\ \E rows \in SelectAdminLinks(u) :
          req' = [req EXCEPT ![p] =
                     Done(p, [Request("listAdminLinks", u, 0, cat, 0)
                                  EXCEPT !.page = pg, !.data = Array(rows)], OK)]
    /\ UNCHANGED <<users, nextUserId, categories, links, nextCatId, nextLinkId>>
    /\ UNCHANGED page

\* SELECT l.id, ..., c.id as category_id, c.sort_order as category_sort
\* FROM links l JOIN categories c ON l.category_id = c.id WHERE l.user_id = ?
\* ORDER BY c.sort_order ASC, l.sort_order ASC
SelectPublicLinks(u) ==
    OrderByCategoryThenSortOrder(
        {l \in DOMAIN links :
            links[l].user_id = u /\ links[l].category_id \in DOMAIN categories})

\* the loop over result.results: grouped[link.category_id] is created at the
\* first row of a category and every row is pushed onto its group, so a
\* group holds the rows of its category in the order of the rows
GroupByCategory(rows) ==
    [c \in {links[rows[i]].category_id : i \in 1..Len(rows)} |->
        LET OfGroup(l) == links[l].category_id = c
        IN  [id |-> c,
             sort_order |-> categories[c].sort_order,
             links |-> SelectSeq(rows, OfGroup)]]

\* Object.values of an object with integer keys: the values in ascending
\* order of the keys
ObjectValues(obj) ==
    LET n == Cardinality(DOMAIN obj)
        keys == CHOOSE k \in [1..n -> DOMAIN obj] :
                    \A i, j \in 1..n : i < j => k[i] < k[j]
    IN  [i \in 1..n |-> obj[keys[i]]]

\* mutation: the groups left in the order of Object.values
SortBySortOrder_NoSort(arr) == arr

\* Array.prototype.sort((a, b) => a.sort_order - b.sort_order): a stable sort
SortBySortOrder(arr) ==
    LET n == Len(arr)
        perm == CHOOSE q \in [1..n -> 1..n] :
                    \A i, j \in 1..n :
                        i < j =>
                            \/ arr[q[i]].sort_order < arr[q[j]].sort_order
                            \/ /\ arr[q[i]].sort_order = arr[q[j]].sort_order
                               /\ q[i] < q[j]
    IN  [i \in 1..n |-> arr[perm[i]]]

\* GET /api/links without category_id: the links of the user grouped by
\* category; u = 0 is a request without a valid token
ListGroupedLinks(p, u) ==
    /\ Ready(p)
    /\ IF u = 0
       THEN req' = [req EXCEPT ![p] = Done(p, Request("listGroupedLinks", u, 0, 0, 0), OK)]
       ELSE \E rows \in SelectPublicLinks(u) :
              req' = [req EXCEPT ![p] =
                         Done(p, [Request("listGroupedLinks", u, 0, 0, 0)
                                      EXCEPT !.data =
                                          SortBySortOrder(ObjectValues(GroupByCategory(rows)))],
                              OK)]
    /\ UNCHANGED <<users, nextUserId, categories, links, nextCatId, nextLinkId>>
    /\ UNCHANGED page

\* ------------------------------------------------------- user management
\* mutation: every authenticated user passes for the super admin
isSuperAdmin_Anyone(u) == TRUE

\* const isSuperAdmin = userId === 1
isSuperAdmin(u) == u = SuperAdminId

\* mutation: no target is taken for the super admin
IsSuperAdminRow_Never(id) == FALSE

\* targetUserId === 1
IsSuperAdminRow(id) == id = 1

\* GET /api/admin/users
ListUsers(p, u) ==
    /\ Ready(p)
    /\ LET r == Request("listUsers", u, 0, 0, 0) IN
       req' = [req EXCEPT ![p] =
                  IF ~isSuperAdmin(u) THEN Done(p, r, Forbidden)
                  ELSE Done(p, [r EXCEPT !.data = DOMAIN users], OK)]
    /\ UNCHANGED <<users, nextUserId, categories, links, nextCatId, nextLinkId>>
    /\ UNCHANGED page

\* SELECT id FROM users WHERE username = ?
SelectUserByName(username) == {x \in DOMAIN users : users[x].username = username}

\* POST /api/admin/users, up to the check of the username
CreateUserSelect(p, u, username, password) ==
    /\ Ready(p)
    /\ LET r == [Request("createUser", u, 0, 0, 0)
                    EXCEPT !.body = [username |-> username, password |-> password]] IN
       req' = [req EXCEPT ![p] =
                  IF ~isSuperAdmin(u) THEN Done(p, r, Forbidden)
                  ELSE IF username = "" \/ password = "" THEN Done(p, r, BadRequest)
                  ELSE IF Length(username) < 3 THEN Done(p, r, BadRequest)
                  ELSE IF Length(password) < 6 THEN Done(p, r, BadRequest)
                  ELSE IF SelectUserByName(username) # {} THEN Done(p, r, BadRequest)
                  ELSE [r EXCEPT !.pc = "insert"]]
    /\ UNCHANGED <<users, nextUserId, categories, links, nextCatId, nextLinkId>>
    /\ UNCHANGED page

\* POST /api/admin/users, the INSERT; username is UNIQUE
CreateUserInsert(p) ==
    /\ req[p].op = "createUser" /\ req[p].pc = "insert" /\ NoResponse
    /\ IF SelectUserByName(req[p].body.username) # {}
       THEN /\ req' = [req EXCEPT ![p] = Done(p, req[p], ServerError)]
            /\ UNCHANGED <<users, nextUserId>>
       ELSE /\ users' = (nextUserId :> [username |-> req[p].body.username,
                                        password_hash |-> hashPassword(req[p].body.password),
                                        status |-> 1]) @@ users
            /\ nextUserId' = nextUserId + 1
            /\ req' = [req EXCEPT ![p] =
                          Done(p, [req[p] EXCEPT !.data = nextUserId], OK)]
    /\ UNCHANGED <<categories, links, nextCatId, nextLinkId>>
    /\ UNCHANGED page

\* UPDATE users SET status = ? WHERE id = ?, bound to (status ? 1 : 0, id)
UpdateUserStatus(id, status) ==
    [x \in DOMAIN users |->
        IF x = id THEN [users[x] EXCEPT !.status = IF status = 0 THEN 0 ELSE 1]
        ELSE users[x]]

\* UPDATE users SET password_hash = ? WHERE id = ?
UpdateUserPassword(id, password) ==
    [x \in DOMAIN users |->
        IF x = id THEN [users[x] EXCEPT !.password_hash = hashPassword(password)]
        ELSE users[x]]

\* PUT /api/admin/users/:id, up to the end of its first statement: the
\* update of status when the body has one, the hash of new_password otherwise
UpdateUserStart(p, u, id, status, new_password) ==
    /\ Ready(p)
    /\ LET r == [Request("updateUser", u, id, 0, 0)
                    EXCEPT !.body = [status |-> status, new_password |-> new_password]] IN
       IF ~isSuperAdmin(u)
       THEN /\ req' = [req EXCEPT ![p] = Done(p, r, Forbidden)]
            /\ UNCHANGED users
       ELSE IF IsSuperAdminRow(id) /\ status # Undefined
       THEN /\ req' = [req EXCEPT ![p] = Done(p, r, BadRequest)]
            /\ UNCHANGED users
       ELSE IF status # Undefined
       THEN /\ users' = UpdateUserStatus(id, status)
            /\ req' = [req EXCEPT ![p] = [r EXCEPT !.pc = "password"]]
       ELSE /\ UNCHANGED users
            /\ req' = [req EXCEPT ![p] =
                          IF new_password = "" THEN Done(p, r, OK)
                          ELSE IF Length(new_password) < 6 THEN Done(p, r, BadRequest)
                          ELSE [r EXCEPT !.pc = "password"]]
    /\ UNCHANGED <<nextUserId, categories, links, nextCatId, nextLinkId>>
    /\ UNCHANGED page

\* PUT /api/admin/users/:id, from "Update password if provided" on
UpdateUserPasswordStep(p) ==
    /\ req[p].op = "updateUser" /\ req[p].pc = "password" /\ NoResponse
    /\ LET new_password == req[p].body.new_password IN
       IF new_password = ""
       THEN /\ req' = [req EXCEPT ![p] = Done(p, req[p], OK)]
            /\ UNCHANGED users
       ELSE IF Length(new_password) < 6
       THEN /\ req' = [req EXCEPT ![p] = Done(p, req[p], BadRequest)]
            /\ UNCHANGED users
       ELSE /\ users' = UpdateUserPassword(req[p].id, new_password)
            /\ req' = [req EXCEPT ![p] = Done(p, req[p], OK)]
    /\ UNCHANGED <<nextUserId, categories, links, nextCatId, nextLinkId>>
    /\ UNCHANGED page

\* DELETE FROM links WHERE user_id = ?: the rows left
DeleteUserLinksWhere(id) == {l \in DOMAIN links : links[l].user_id # id}

\* DELETE /api/admin/users/:id, up to the end of its first statement
DeleteUserStart(p, u, id) ==
    /\ Ready(p)
    /\ LET r == Request("deleteUser", u, id, 0, 0) IN
       IF ~isSuperAdmin(u)
       THEN /\ req' = [req EXCEPT ![p] = Done(p, r, Forbidden)]
            /\ UNCHANGED links
       ELSE IF IsSuperAdminRow(id)
       THEN /\ req' = [req EXCEPT ![p] = Done(p, r, BadRequest)]
            /\ UNCHANGED links
       ELSE /\ links' = Restrict(links, DeleteUserLinksWhere(id))
            /\ req' = [req EXCEPT ![p] = [r EXCEPT !.pc = "deleteCategories"]]
    /\ UNCHANGED <<users, nextUserId, categories, nextCatId, nextLinkId>>
    /\ UNCHANGED page

\* DELETE /api/admin/users/:id: DELETE FROM categories WHERE user_id = ?
DeleteUserCategories(p) ==
    /\ req[p].op = "deleteUser" /\ req[p].pc = "deleteCategories" /\ NoResponse
    /\ LET gone == {c \in DOMAIN categories : categories[c].user_id = req[p].id} IN
       /\ categories' = Restrict(categories, DOMAIN categories \ gone)
       /\ links' = CascadeLinks(gone)
    /\ req' = [req EXCEPT ![p].pc = "deleteUser"]
    /\ UNCHANGED <<users, nextUserId, nextCatId, nextLinkId>>
    /\ UNCHANGED page

\* mutation: the row of the user deleted without the rows that reference it
CascadeUser_None(left) == <<categories, links>>

\* categories.user_id and links.user_id REFERENCES users(id) ON DELETE CASCADE:
\* the categories and links left once only the users left have theirs
CascadeUser(left) ==
    LET cats == {c \in DOMAIN categories : categories[c].user_id \in left} IN
    <<Restrict(categories, cats),
      Restrict(links, {l \in DOMAIN links :
                          links[l].user_id \in left /\ links[l].category_id \in cats})>>

\* DELETE /api/admin/users/:id: DELETE FROM users WHERE id = ?
DeleteUserRow(p) ==
    /\ req[p].op = "deleteUser" /\ req[p].pc = "deleteUser" /\ NoResponse
    /\ LET left == DOMAIN users \ {req[p].id} IN
       /\ users' = Restrict(users, left)
       /\ categories' = CascadeUser(left)[1]
       /\ links' = CascadeUser(left)[2]
    /\ req' = [req EXCEPT ![p] = Done(p, req[p], OK)]
    /\ UNCHANGED <<nextUserId, nextCatId, nextLinkId>>
    /\ UNCHANGED page

\* the statements of the user management handlers; table users is capped at
\* maxUsers rows ever inserted
HandleUsers(p, callers, maxUsers) ==
    \/ \E u \in callers : ListUsers(p, u)
    \/ \E u \in callers, username \in UsernameInputs, password \in PasswordInputs :
          nextUserId <= maxUsers /\ CreateUserSelect(p, u, username, password)
    \/ CreateUserInsert(p)
    \/ \E u \in callers, id \in TargetIds, status \in StatusInputs,
          new_password \in PasswordInputs :
          UpdateUserStart(p, u, id, status, new_password)
    \/ UpdateUserPasswordStep(p)
    \/ \E u \in callers, id \in TargetIds : DeleteUserStart(p, u, id)
    \/ DeleteUserCategories(p)
    \/ DeleteUserRow(p)

\* ------------------------------------------------------------- reorder
\* PUT /api/admin/categories/reorder {category_id, target_category_id, position}:
\* the path matches no route of handleAdminAPI (categoryMatch wants digits) and
\* falls through to its last statement, errorResponse('Not found', 404)
ReorderCategory(p, u, source, target, pos) ==
    /\ Ready(p)
    /\ req' = [req EXCEPT ![p] =
                  Done(p, [Request("reorderCategory", u, source, 0, 0)
                               EXCEPT !.target = target, !.pos = pos], NotFound)]
    /\ UNCHANGED <<users, nextUserId, categories, links, nextCatId, nextLinkId>>
    /\ UNCHANGED page

\* PUT /api/admin/links/reorder {category_id, link_id, target_link_id, position}:
\* no route either (linkMatch wants digits)
ReorderLink(p, u, cat, source, target, pos) ==
    /\ Ready(p)
    /\ req' = [req EXCEPT ![p] =
                  Done(p, [Request("reorderLink", u, source, cat, 0)
                               EXCEPT !.target = target, !.pos = pos], NotFound)]
    /\ UNCHANGED <<users, nextUserId, categories, links, nextCatId, nextLinkId>>
    /\ UNCHANGED page

\* the response leaves the Worker
Respond(p) ==
    /\ req[p].pc = "done"
    /\ req' = [req EXCEPT ![p] = Idle]
    /\ UNCHANGED <<users, nextUserId, categories, links, nextCatId, nextLinkId>>
    /\ UNCHANGED page

\* the statements of the category handlers, for requests of the users callers;
\* the table is capped at maxCats rows
HandleCategories(p, callers, maxCats) ==
    \/ \E u \in callers, hasName \in BOOLEAN, sort \in SortOrders :
          nextCatId <= maxCats /\ CreateCategory(p, u, hasName, sort)
    \/ \E u \in callers, id \in CatIds, hasName \in BOOLEAN, sort \in SortOrders :
          UpdateCategory(p, u, id, hasName, sort)
    \/ \E u \in callers, id \in CatIds : DeleteCategorySelect(p, u, id)
    \/ DeleteCategoryLinks(p)
    \/ DeleteCategoryRow(p)

\* the statements of the link handlers; the table is capped at maxLinks rows
HandleLinks(p, callers, maxLinks) ==
    \/ \E u \in callers, cat \in {0} \cup CatIds, hasName \in BOOLEAN,
          sort \in SortOrders :
          nextLinkId <= maxLinks /\ CreateLinkSelect(p, u, cat, hasName, sort)
    \/ CreateLinkInsert(p)
    \/ \E u \in callers, id \in LinkIds, cat \in {0} \cup CatIds,
          hasName \in BOOLEAN, sort \in SortOrders :
          UpdateLinkSelect(p, u, id, cat, hasName, sort)
    \/ UpdateLinkWrite(p)
    \/ \E u \in callers, id \in LinkIds : DeleteLink(p, u, id)

Handle(p, callers, maxCats, maxLinks) ==
    \/ HandleCategories(p, callers, maxCats)
    \/ HandleLinks(p, callers, maxLinks)

Next ==
    \/ Handle(Observed, UserIds, MaxCats, MaxLinks)
    \/ \E u \in UserIds : ListCategories(Observed, u)
    \/ \E u \in UserIds, cat \in CatIds : ListLinks(Observed, u, cat)
    \/ \E u \in UserIds, s \in CatIds, t \in CatIds, pos \in Positions :
          ReorderCategory(Observed, u, s, t, pos)
    \/ \E u \in UserIds, cat \in CatIds, s \in LinkIds, t \in LinkIds,
          pos \in Positions : ReorderLink(Observed, u, cat, s, t, pos)
    \/ Respond(Observed)

Spec == Init /\ [][Next]_vars

\* two requests at a time, on a store of at most RaceCats categories and
\* RaceLinks links
NextRace ==
    \/ \E p \in Reqs : Handle(p, UserIds, RaceCats, RaceLinks)
    \/ Respond(Observed)

SpecRace == Init /\ [][NextRace]_vars

\* user management next to the create requests of the users, one request
\* at a time
NextUsers ==
    \/ HandleUsers(Observed, UserIds, MaxUsers)
    \/ \E u \in UserIds, sort \in SortOrders :
          nextCatId <= RaceCats /\ CreateCategory(Observed, u, TRUE, sort)
    \/ \E u \in UserIds, cat \in CatIds, sort \in SortOrders :
          nextLinkId <= RaceLinks /\ CreateLinkSelect(Observed, u, cat, TRUE, sort)
    \/ CreateLinkInsert(Observed)
    \/ Respond(Observed)

SpecUsers == Init /\ [][NextUsers]_vars

\* the deletion of users by the super admin in slot Observed while the
\* users' create requests run in slot Concurrent
NextUserRace ==
    \/ \E id \in TargetIds : DeleteUserStart(Observed, SuperAdminId, id)
    \/ DeleteUserCategories(Observed)
    \/ DeleteUserRow(Observed)
    \/ \E u \in UserIds, sort \in SortOrders :
          nextCatId <= MaxCats /\ CreateCategory(Concurrent, u, TRUE, sort)
    \/ \E u \in UserIds, cat \in CatIds, sort \in SortOrders :
          nextLinkId <= MaxLinks /\ CreateLinkSelect(Concurrent, u, cat, TRUE, sort)
    \/ CreateLinkInsert(Concurrent)
    \/ Respond(Observed)

SpecUserRace == Init /\ [][NextUserRace]_vars

\* ------------------------------------------------------ authentication
\* null
Null == [null |-> TRUE]

\* the tokens a request may carry: parts is the number of parts between
\* dots, key the secret the signature was made with, userId and exp the
\* fields of the payload
Tokens ==
    [parts : {3}, key : {"JWT_SECRET", "other"}, userId : UserIds, exp : Times]
        \cup {[parts |-> 2, key |-> "other", userId |-> 1, exp |-> MaxTime]}

\* the Authorization headers of a request
AuthHeaders ==
    {[scheme |-> "none"], [scheme |-> "Basic"]} \cup [scheme : {"Bearer"}, token : Tokens]

\* extractToken(request)
extractToken(auth) ==
    IF auth.scheme = "none" \/ auth.scheme # "Bearer" THEN Null ELSE auth.token

\* mutation: verifyJWT without its check of exp
verifyJWT_NoExpiry(tok, now) ==
    IF tok.parts # 3 THEN Null
    ELSE IF tok.key # "JWT_SECRET" THEN Null
    ELSE [userId |-> tok.userId, exp |-> tok.exp]

\* verifyJWT(token, env), called at second now
verifyJWT(tok, now) ==
    IF tok.parts # 3 THEN Null
    ELSE IF tok.key # "JWT_SECRET" THEN Null
    ELSE IF tok.exp < now THEN Null
    ELSE [userId |-> tok.userId, exp |-> tok.exp]

\* handleAdminAPI for the user of an accepted token, on a store of at most
\* RaceCats categories and RaceLinks links and with no user added
handleAdminAPI(p, userId) ==
    \/ Handle(p, {userId}, RaceCats, RaceLinks)
    \/ HandleUsers(p, {userId}, NumUsers)

\* fetch of the Worker for a path under /api/admin/, at second now
fetchAdmin(p, method, auth, now) ==
    IF method = "OPTIONS"
    THEN /\ Ready(p)
         /\ req' = [req EXCEPT ![p] = Done(p, Request("preflight", 0, 0, 0, 0), NoContent)]
         /\ UNCHANGED <<users, nextUserId, categories, links, nextCatId, nextLinkId>>
         /\ UNCHANGED page
    ELSE LET tok == extractToken(auth)
             payload == IF tok = Null THEN Null ELSE verifyJWT(tok, now)
         IN  IF payload = Null
             THEN /\ Ready(p)
                  /\ req' = [req EXCEPT ![p] =
                                Done(p, [Request("unauthorized", 0, 0, 0, 0)
                                             EXCEPT !.body = [auth |-> auth, now |-> now]],
                                     Unauthorized)]
                  /\ UNCHANGED <<users, nextUserId, categories, links, nextCatId,
                                 nextLinkId>>
                  /\ UNCHANGED page
             ELSE handleAdminAPI(p, payload.userId)

\* the Worker's fetch for the admin API, one request at a time
NextAuth ==
    \/ \E method \in {"OPTIONS", "other"}, auth \in AuthHeaders, now \in Times :
          fetchAdmin(Observed, method, auth, now)
    \/ Respond(Observed)

SpecAuth == Init /\ [][NextAuth]_vars

\* the listings, read while the requests of slot Concurrent write the store
NextList ==
    \/ Handle(Concurrent, UserIds, MaxCats, MaxLinks)
    \/ \E u \in UserIds, cat \in CatIds, pg \in Pages : ListAdminLinks(Observed, u, cat, pg)
    \/ \E u \in UserIds \cup {0} : ListGroupedLinks(Observed, u)
    \/ Respond(Observed)

SpecList == Init /\ [][NextList]_vars

\* updates of two requests at a time, on rows that the requests of slot
\* Concurrent create
NextUpdates ==
    \/ \E u \in UserIds, sort \in SortOrders :
          nextCatId <= MaxCats /\ CreateCategory(Concurrent, u, TRUE, sort)
    \/ \E u \in UserIds, cat \in CatIds, sort \in SortOrders :
          nextLinkId <= MaxLinks /\ CreateLinkSelect(Concurrent, u, cat, TRUE, sort)
    \/ CreateLinkInsert(Concurrent)
    \/ \E p \in Reqs, u \in UserIds, id \in CatIds, sort \in SortOrders :
          UpdateCategory(p, u, id, TRUE, sort)
    \/ \E p \in Reqs, u \in UserIds, id \in LinkIds, cat \in CatIds, sort \in SortOrders :
          UpdateLinkSelect(p, u, id, cat, TRUE, sort)
    \/ \E p \in Reqs : UpdateLinkWrite(p)
    \/ Respond(Observed)

SpecUpdates == Init /\ [][NextUpdates]_vars

\* ================================================================ the page
Range(seq) == {seq[i] : i \in 1..Len(seq)}

\* checkAuth: the page reads its token, whose payload names the user
checkAuth(u) ==
    /\ token = 0
    /\ token' = u
    /\ UNCHANGED <<pageCategories, pageLinks, selectedCategoryId, activeCategory,
                   draggingCategoryId,
                   draggingLinkId, isCategoryReorderInFlight, isReorderInFlight,
                   dragSession, fetches>>
    /\ UNCHANGED paging
    /\ UNCHANGED worker

\* loadCategories up to its await: apiRequest('/api/admin/categories')
\* (called when the page opens and after the page saves or deletes a category)
loadCategories ==
    /\ token # 0
    /\ fetches["loadCategories"].pc = "none"
    /\ fetches' = [fetches EXCEPT !["loadCategories"].pc = "sent"]
    /\ UNCHANGED <<token, pageCategories, pageLinks, selectedCategoryId, activeCategory,
                   draggingCategoryId, draggingLinkId, isCategoryReorderInFlight,
                   isReorderInFlight, dragSession>>
    /\ UNCHANGED paging
    /\ UNCHANGED worker

\* mutation: the first category selected whatever was selected before
SyncSelected_First(cats) == IF Len(cats) = 0 THEN 0 ELSE cats[1]

\* syncSelectedCategory: the selection once the page's categories are cats
SyncSelected(cats) ==
    IF Len(cats) = 0 THEN 0
    ELSE IF selectedCategoryId # 0 /\ selectedCategoryId \in Range(cats)
    THEN selectedCategoryId
    ELSE IF activeCategory \in Range(cats) THEN activeCategory ELSE cats[1]

\* syncSelectedCategory: localStorage adminActiveCategory afterwards
SyncStored(cats) ==
    IF Len(cats) = 0 THEN 0
    ELSE IF selectedCategoryId # 0 /\ selectedCategoryId \in Range(cats)
    THEN activeCategory
    ELSE SyncSelected(cats)

\* getStoredPageForCategory: parseInt of the stored text, 1 unless it is a
\* finite number above 0
getStoredPageForCategory(categoryId) ==
    IF categoryId = 0 THEN 1
    ELSE IF categoryId \in DOMAIN categoryPage /\ categoryPage[categoryId] > 0
    THEN categoryPage[categoryId]
    ELSE 1

\* storePageForCategory: localStorage afterwards
storePageForCategory(categoryId, pg) ==
    IF categoryId = 0 \/ pg = 0
    THEN categoryPage
    ELSE (categoryId :> pg) @@ categoryPage

\* syncSelectedCategory: linkPagination afterwards
SyncPagination(cats) ==
    IF Len(cats) = 0 THEN NoPagination
    ELSE IF selectedCategoryId # 0 /\ selectedCategoryId \in Range(cats)
    THEN linkPagination
    ELSE [linkPagination EXCEPT !.page = getStoredPageForCategory(SyncSelected(cats))]

\* a persist function that awaits this reload ends: finally { flag = false }
AwaitedBy(k) == fetches[k].pc = "reloading"

\* GET /api/admin/categories answers the page, and loadCategories goes on
\* after its await
loadCategoriesAnswered ==
    /\ fetches["loadCategories"].pc = "sent"
    /\ \E rows \in OrderBySortOrder(CategoriesOf(token), categories) :
          LET result == [status |-> OK, data |-> Array(rows)] IN
          IF result.status = OK
          THEN /\ pageCategories' = result.data.items
               /\ selectedCategoryId' = SyncSelected(result.data.items)
               /\ activeCategory' = SyncStored(result.data.items)
               /\ linkPagination' = SyncPagination(result.data.items)
          ELSE UNCHANGED <<pageCategories, selectedCategoryId, activeCategory,
                           linkPagination>>
    /\ fetches' = [fetches EXCEPT !["loadCategories"] = NoFetch,
                                  !["reorderCategory"] =
                                      IF AwaitedBy("reorderCategory") THEN NoFetch ELSE @]
    /\ isCategoryReorderInFlight' =
          IF AwaitedBy("reorderCategory") THEN FALSE ELSE isCategoryReorderInFlight
    /\ UNCHANGED <<token, pageLinks, draggingCategoryId, draggingLinkId,
                   isReorderInFlight, dragSession, categoryPage, linkLoads>>
    /\ UNCHANGED worker

\* loadLinks up to its await, with categoryId selected and pg the page of
\* linkPagination: without a selected category the page's links are emptied,
\* else apiRequest('/api/admin/links?category_id=&page=&per_page=') is on
\* its way; awaited says that persistLinkReorder awaits the call
loadLinks(categoryId, pg, awaited) ==
    IF categoryId = 0
    THEN pageLinks' = << >> /\ UNCHANGED linkLoads
    ELSE /\ linkLoads' = Append(linkLoads, [category_id |-> categoryId, page |-> pg,
                                            awaited |-> awaited])
         /\ UNCHANGED pageLinks

\* loadLinks() called when the page opens and after the page saves or deletes
\* a link or deletes a category, with fewer than maxLoads calls unanswered
loadLinksCalled(maxLoads) ==
    /\ token # 0
    /\ Len(linkLoads) < maxLoads
    /\ loadLinks(selectedCategoryId, linkPagination.page, FALSE)
    /\ UNCHANGED <<token, pageCategories, selectedCategoryId, activeCategory,
                   draggingCategoryId, draggingLinkId, isCategoryReorderInFlight,
                   isReorderInFlight, dragSession, fetches, linkPagination,
                   categoryPage>>
    /\ UNCHANGED worker

\* payload.links || [] where payload = result.data || {}
PayloadLinks(payload) ==
    IF "links" \in DOMAIN payload THEN payload.links ELSE << >>

\* obj.name || otherwise
Or(obj, name, otherwise) ==
    IF name \in DOMAIN obj /\ obj[name] # 0 THEN obj[name] ELSE otherwise

\* linkPagination as loadLinks builds it from payload.pagination || {}
PayloadPagination(payload) ==
    LET pagination == IF "pagination" \in DOMAIN payload
                      THEN payload.pagination ELSE [none |-> 0]
        total_pages == Or(pagination, "total_pages", 1)
    IN  [page |-> Or(pagination, "page", 1),
         perPage |-> Or(pagination, "per_page", LINKS_PER_PAGE),
         total |-> Or(pagination, "total", 0),
         totalPages |-> IF total_pages > 1 THEN total_pages ELSE 1]

\* the sequence without its i-th element
Without(seq, i) == SubSeq(seq, 1, i - 1) \o SubSeq(seq, i + 1, Len(seq))

\* GET /api/admin/links answers the i-th unanswered call with every link of
\* the user, as an array (the query string is not read), and loadLinks goes
\* on after its await; the answers come in any order
loadLinksAnswered(i) ==
    /\ i \in 1..Len(linkLoads)
    /\ \E rows \in SelectAdminLinks(token) :
          LET result == [status |-> OK, data |-> Array(rows)] IN
          IF result.status = OK
          THEN /\ pageLinks' = PayloadLinks(result.data)
               /\ linkPagination' = PayloadPagination(result.data)
               /\ categoryPage' =
                     storePageForCategory(selectedCategoryId,
                                          PayloadPagination(result.data).page)
          ELSE UNCHANGED <<pageLinks, linkPagination, categoryPage>>
    /\ linkLoads' = Without(linkLoads, i)
    /\ IF linkLoads[i].awaited
       THEN /\ fetches' = [fetches EXCEPT !["reorderLink"] = NoFetch]
            /\ isReorderInFlight' = FALSE
       ELSE UNCHANGED <<fetches, isReorderInFlight>>
    /\ UNCHANGED <<token, pageCategories, selectedCategoryId, activeCategory,
                   draggingCategoryId, draggingLinkId, isCategoryReorderInFlight,
                   dragSession>>
    /\ UNCHANGED worker

\* setActiveCategory
setActiveCategory(categoryId) ==
    IF categoryId = 0
    THEN UNCHANGED <<selectedCategoryId, linkPagination, activeCategory, pageLinks,
                     linkLoads>>
    ELSE /\ selectedCategoryId' = categoryId
         /\ linkPagination' =
               [linkPagination EXCEPT !.page = getStoredPageForCategory(categoryId)]
         /\ activeCategory' = categoryId
         /\ loadLinks(categoryId, getStoredPageForCategory(categoryId), FALSE)

\* click on categoryList; item is the category item under the pointer, 0
\* when there is none, onActions says that the pointer is on its buttons;
\* isCategoryDragging is true from dragstart to dragend only, and no click
\* comes during a drag-and-drop operation
handleCategoryClick(item, onActions, maxLoads) ==
    /\ token # 0
    /\ dragSession = "none"
    /\ Len(linkLoads) < maxLoads
    /\ IF onActions \/ item = 0 \/ item = selectedCategoryId
       THEN UNCHANGED <<selectedCategoryId, linkPagination, activeCategory, pageLinks,
                        linkLoads>>
       ELSE setActiveCategory(item)
    /\ UNCHANGED <<token, pageCategories, draggingCategoryId, draggingLinkId,
                   isCategoryReorderInFlight, isReorderInFlight, dragSession, fetches,
                   categoryPage>>
    /\ UNCHANGED worker

\* mutation: changePage without the test of the range
InRange_Always(nextPage) == TRUE

\* if (nextPage < 1 || nextPage > linkPagination.totalPages) return;
InRange(nextPage) == ~(nextPage < 1 \/ nextPage > linkPagination.totalPages)

\* click on prevPageBtn (delta -1) or nextPageBtn (delta 1): changePage(delta)
changePage(delta, maxLoads) ==
    /\ token # 0
    /\ Len(linkLoads) < maxLoads
    /\ LET nextPage == linkPagination.page + delta IN
       IF selectedCategoryId = 0 \/ ~InRange(nextPage)
       THEN UNCHANGED <<linkPagination, categoryPage, pageLinks, linkLoads>>
       ELSE /\ linkPagination' = [linkPagination EXCEPT !.page = nextPage]
            /\ categoryPage' = storePageForCategory(selectedCategoryId, nextPage)
            /\ loadLinks(selectedCategoryId, nextPage, FALSE)
    /\ UNCHANGED <<token, pageCategories, selectedCategoryId, activeCategory,
                   draggingCategoryId, draggingLinkId, isCategoryReorderInFlight,
                   isReorderInFlight, dragSession, fetches>>
    /\ UNCHANGED worker

\* ------------------------------------------------------------ drag and drop
\* mutation: persistCategoryReorder without the test of its flag
persistCategoryReorder_Unguarded(categoryId, targetId, position) ==
    IF categoryId = 0 \/ targetId = 0
    THEN UNCHANGED <<isCategoryReorderInFlight, fetches>>
    ELSE /\ isCategoryReorderInFlight' = TRUE
         /\ fetches' = [fetches EXCEPT !["reorderCategory"] =
                           [@ EXCEPT !.pc = "sent",
                                     !.body = <<categoryId, targetId, position>>]]

\* persistCategoryReorder up to its await
persistCategoryReorder(categoryId, targetId, position) ==
    IF isCategoryReorderInFlight \/ categoryId = 0 \/ targetId = 0
    THEN UNCHANGED <<isCategoryReorderInFlight, fetches>>
    ELSE /\ isCategoryReorderInFlight' = TRUE
         /\ fetches' = [fetches EXCEPT !["reorderCategory"] =
                           [@ EXCEPT !.pc = "sent",
                                     !.body = <<categoryId, targetId, position>>]]

\* persistLinkReorder up to its await
persistLinkReorder(linkId, targetId, position) ==
    IF isReorderInFlight \/ selectedCategoryId = 0
    THEN UNCHANGED <<isReorderInFlight, fetches>>
    ELSE /\ isReorderInFlight' = TRUE
         /\ fetches' = [fetches EXCEPT !["reorderLink"] =
                           [@ EXCEPT !.pc = "sent",
                                     !.body = <<selectedCategoryId, linkId, targetId,
                                                position>>]]

\* mutation: the first element child taken for the last
LastItem_First(seq) == IF Len(seq) = 0 THEN 0 ELSE seq[1]

\* the last element child of the list, 0 when the list shows no entity
LastItem(seq) == IF Len(seq) = 0 THEN 0 ELSE seq[Len(seq)]

\* mutation: the drop goes on when source and target are the same entity
NothingToMove_SelfAllowed(sourceId, targetId) == targetId = 0

\* if (!targetId || sourceId === targetId) return;
NothingToMove(sourceId, targetId) == targetId = 0 \/ sourceId = targetId

\* dragstart on categoryList; item is the category item under the pointer,
\* 0 when there is none, onActions says that the pointer is on its buttons
handleCategoryDragStart(item, onActions) ==
    /\ token # 0
    /\ dragSession = "none"
    /\ IF Len(pageCategories) < 2 \/ item = 0
       THEN /\ dragSession' = "category"
            /\ UNCHANGED draggingCategoryId
       ELSE IF onActions
       THEN UNCHANGED <<dragSession, draggingCategoryId>>
       ELSE /\ dragSession' = "category"
            /\ draggingCategoryId' = item
    /\ UNCHANGED <<token, pageCategories, pageLinks, selectedCategoryId, activeCategory,
                   draggingLinkId, isCategoryReorderInFlight, isReorderInFlight, fetches>>
    /\ UNCHANGED paging
    /\ UNCHANGED worker

\* drop on categoryList; item is the category item under the pointer, 0 when
\* the drop is on empty space, position the half of the item the pointer is in
handleCategoryDrop(item, position) ==
    /\ dragSession = "category"
    /\ dragSession' = "categoryDropped"
    /\ IF draggingCategoryId = 0
       THEN UNCHANGED <<draggingCategoryId, isCategoryReorderInFlight, fetches>>
       ELSE IF item # 0 /\ item = draggingCategoryId
       THEN /\ draggingCategoryId' = 0
            /\ UNCHANGED <<isCategoryReorderInFlight, fetches>>
       ELSE LET targetId == IF item # 0 THEN item ELSE LastItem(pageCategories)
                pos == IF item # 0 THEN position ELSE "after"
                sourceId == draggingCategoryId
            IN  /\ draggingCategoryId' = 0
                /\ IF NothingToMove(sourceId, targetId)
                   THEN UNCHANGED <<isCategoryReorderInFlight, fetches>>
                   ELSE persistCategoryReorder(sourceId, targetId, pos)
    /\ UNCHANGED <<token, pageCategories, pageLinks, selectedCategoryId, activeCategory,
                   draggingLinkId, isReorderInFlight>>
    /\ UNCHANGED paging
    /\ UNCHANGED worker

\* dragend on categoryList: clearCategoryDragState
clearCategoryDragState ==
    /\ dragSession \in {"category", "categoryDropped"}
    /\ dragSession' = "none"
    /\ draggingCategoryId' = 0
    /\ UNCHANGED <<token, pageCategories, pageLinks, selectedCategoryId, activeCategory,
                   draggingLinkId, isCategoryReorderInFlight, isReorderInFlight, fetches>>
    /\ UNCHANGED paging
    /\ UNCHANGED worker

\* dragstart on linkTableBody; row is the link row under the pointer, 0 when
\* there is none; a row is draggable when the table shows more than one
handleLinkDragStart(row, onActions) ==
    /\ token # 0
    /\ dragSession = "none"
    /\ IF row = 0 \/ ~(Len(pageLinks) > 1)
       THEN /\ dragSession' = "link"
            /\ UNCHANGED draggingLinkId
       ELSE IF onActions
       THEN UNCHANGED <<dragSession, draggingLinkId>>
       ELSE IF Len(pageLinks) < 2
       THEN /\ dragSession' = "link"
            /\ UNCHANGED draggingLinkId
       ELSE /\ dragSession' = "link"
            /\ draggingLinkId' = row
    /\ UNCHANGED <<token, pageCategories, pageLinks, selectedCategoryId, activeCategory,
                   draggingCategoryId, isCategoryReorderInFlight, isReorderInFlight,
                   fetches>>
    /\ UNCHANGED paging
    /\ UNCHANGED worker

\* drop on linkTableBody
handleLinkDrop(row, position) ==
    /\ dragSession = "link"
    /\ dragSession' = "linkDropped"
    /\ IF draggingLinkId = 0
       THEN UNCHANGED <<draggingLinkId, isReorderInFlight, fetches>>
       ELSE IF row # 0 /\ row = draggingLinkId
       THEN /\ draggingLinkId' = 0
            /\ UNCHANGED <<isReorderInFlight, fetches>>
       ELSE LET targetId == IF row # 0 THEN row ELSE LastItem(pageLinks)
                sourceId == draggingLinkId
            IN  /\ draggingLinkId' = 0
                /\ IF NothingToMove(sourceId, targetId)
                   THEN UNCHANGED <<isReorderInFlight, fetches>>
                   ELSE persistLinkReorder(sourceId, targetId,
                                           IF row # 0 THEN position ELSE "after")
    /\ UNCHANGED <<token, pageCategories, pageLinks, selectedCategoryId, activeCategory,
                   draggingCategoryId, isCategoryReorderInFlight>>
    /\ UNCHANGED paging
    /\ UNCHANGED worker

\* dragend on linkTableBody: clearDragState
clearDragState ==
    /\ dragSession \in {"link", "linkDropped"}
    /\ dragSession' = "none"
    /\ draggingLinkId' = 0
    /\ UNCHANGED <<token, pageCategories, pageLinks, selectedCategoryId, activeCategory,
                   draggingCategoryId, isCategoryReorderInFlight, isReorderInFlight,
                   fetches>>
    /\ UNCHANGED paging
    /\ UNCHANGED worker

\* mutation: the flag is lowered at the end of the try block, not in finally
persistReorderAnswered_NoFinally(k) ==
    /\ fetches[k].pc = "sent"
    /\ fetches' = [fetches EXCEPT ![k] = NoFetch]
    /\ UNCHANGED <<isCategoryReorderInFlight, isReorderInFlight>>
    /\ UNCHANGED <<token, pageCategories, pageLinks, selectedCategoryId, activeCategory,
                   draggingCategoryId, draggingLinkId, dragSession>>
    /\ UNCHANGED paging
    /\ UNCHANGED worker

\* PUT /api/admin/categories/reorder or /api/admin/links/reorder of the page
\* reaches handleAdminAPI, which has no route for it and answers
\* errorResponse('Not found', 404), or the request throws (the network fails);
\* persistCategoryReorder or persistLinkReorder goes on after its await: a
\* failure ends the function and a throw is caught, and the finally clause
\* lowers the flag; a success awaits loadCategories() or loadLinks(false) first
persistReorderAnswered(k) ==
    /\ fetches[k].pc = "sent"
    /\ \E thrown \in BOOLEAN :
       LET result == [status |-> NotFound] IN
       IF thrown \/ result.status # OK
       THEN /\ fetches' = [fetches EXCEPT ![k] = NoFetch]
            /\ isCategoryReorderInFlight' =
                  IF k = "reorderCategory" THEN FALSE ELSE isCategoryReorderInFlight
            /\ isReorderInFlight' = IF k = "reorderLink" THEN FALSE ELSE isReorderInFlight
            /\ UNCHANGED <<pageLinks, linkLoads>>
       ELSE IF k = "reorderCategory"
       THEN /\ fetches["loadCategories"].pc = "none"
            /\ fetches' = [fetches EXCEPT ![k].pc = "reloading",
                                          !["loadCategories"].pc = "sent"]
            /\ UNCHANGED <<isCategoryReorderInFlight, isReorderInFlight, pageLinks,
                           linkLoads>>
       ELSE /\ loadLinks(selectedCategoryId, linkPagination.page, TRUE)
            /\ fetches' = [fetches EXCEPT ![k] =
                              IF selectedCategoryId = 0
                              THEN NoFetch ELSE [@ EXCEPT !.pc = "reloading"]]
            /\ isReorderInFlight' =
                  IF selectedCategoryId = 0 THEN FALSE ELSE isReorderInFlight
            /\ UNCHANGED isCategoryReorderInFlight
    /\ UNCHANGED <<token, pageCategories, selectedCategoryId, activeCategory,
                   draggingCategoryId, draggingLinkId, dragSession, linkPagination,
                   categoryPage>>
    /\ UNCHANGED worker


\* the page, and the category requests of its user
NextPage ==
    \/ checkAuth(SuperAdminId)
    \/ loadCategories
    \/ loadCategoriesAnswered
    \/ loadLinksCalled(1)
    \/ loadLinksAnswered(1)
    \/ \E item \in {0} \cup Range(pageCategories), onActions \in BOOLEAN :
          handleCategoryDragStart(item, onActions)
    \/ \E item \in {0} \cup Range(pageCategories), position \in Positions :
          handleCategoryDrop(item, position)
    \/ clearCategoryDragState
    \/ \E row \in {0} \cup Range(pageLinks), onActions \in BOOLEAN :
          handleLinkDragStart(row, onActions)
    \/ \E row \in {0} \cup Range(pageLinks), position \in Positions :
          handleLinkDrop(row, position)
    \/ clearDragState
    \/ \E k \in {"reorderCategory", "reorderLink"} : persistReorderAnswered(k)
    \/ HandleCategories(Concurrent, {token} \cap UserIds, MaxCats)

SpecPage == Init /\ [][NextPage]_vars

\* the page when every request it has sent is answered (or throws) and the
\* code after the await then runs: the Worker returns a response on every
\* path, and the browser runs the continuation of a settled promise
SpecPageLive ==
    /\ SpecPage
    /\ \A k \in {"reorderCategory", "reorderLink"} : WF_vars(persistReorderAnswered(k))
    /\ WF_vars(loadCategoriesAnswered)
    /\ \A i \in 1..MaxLoads : WF_vars(loadLinksAnswered(i))

\* the page with its category list and the pages of its link table: clicks
\* on categories and on the page buttons while earlier loads are unanswered,
\* and the creates of its user from another tab
NextPaging ==
    \/ checkAuth(SuperAdminId)
    \/ loadCategories
    \/ loadCategoriesAnswered
    \/ loadLinksCalled(MaxLoads)
    \/ \E i \in 1..MaxLoads : loadLinksAnswered(i)
    \/ \E item \in {0} \cup Range(pageCategories), onActions \in BOOLEAN :
          handleCategoryClick(item, onActions, MaxLoads)
    \/ \E delta \in {-1, 1} : changePage(delta, MaxLoads)
    \/ \E u \in {token} \cap UserIds, sort \in SortOrders :
          nextCatId <= MaxCats /\ CreateCategory(Concurrent, u, TRUE, sort)
    \/ \E u \in {token} \cap UserIds, cat \in CatIds, sort \in SortOrders :
          nextLinkId <= MaxLinks /\ CreateLinkSelect(Concurrent, u, cat, TRUE, sort)
    \/ CreateLinkInsert(Concurrent)

SpecPaging == InitStored /\ [][NextPaging]_vars

\* ================================================================ claims
tables == <<categories, links>>

\* the rows of the two tables that belong to user v
CategoryRowsOf(v) == Restrict(categories, CategoriesOf(v))
LinkRowsOf(v) == Restrict(links, {l \in DOMAIN links : links[l].user_id = v})

\* a statement of a category or link create, update or delete request
\* authenticated as u runs
WritesAs(u) ==
    \E p \in Reqs :
        \/ \E hasName \in BOOLEAN, sort \in SortOrders : CreateCategory(p, u, hasName, sort)
        \/ \E id \in CatIds, hasName \in BOOLEAN, sort \in SortOrders :
              UpdateCategory(p, u, id, hasName, sort)
        \/ \E id \in CatIds : DeleteCategorySelect(p, u, id)
        \/ \E cat \in {0} \cup CatIds, hasName \in BOOLEAN, sort \in SortOrders :
              CreateLinkSelect(p, u, cat, hasName, sort)
        \/ \E id \in LinkIds, cat \in {0} \cup CatIds, hasName \in BOOLEAN,
              sort \in SortOrders : UpdateLinkSelect(p, u, id, cat, hasName, sort)
        \/ \E id \in LinkIds : DeleteLink(p, u, id)
        \/ /\ req[p].user = u
           /\ \/ DeleteCategoryLinks(p)
              \/ DeleteCategoryRow(p)
              \/ CreateLinkInsert(p)
              \/ UpdateLinkWrite(p)

Remove(seq, x) == SelectSeq(seq, LAMBDA e : e # x)

IndexOf(seq, x) == CHOOSE i \in 1..Len(seq) : seq[i] = x

\* the rows of S sorted by (sort_order ASC, id ASC)
SortedById(S, table) ==
    CHOOSE s \in OrderBySortOrder(S, table) :
        \A i, j \in 1..Cardinality(S) :
            (i < j /\ table[s[i]].sort_order = table[s[j]].sort_order) => s[i] < s[j]

\* the number of rows in front of the slot source is to take: source is
\* removed first, then put before or after target in what remains
Slot(seq, source, target, pos) ==
    LET i == IndexOf(Remove(seq, source), target) IN
        IF pos = "before" THEN i - 1 ELSE i

\* seq with source moved before or after target
Move(seq, source, target, pos) ==
    LET rest == Remove(seq, source)
        k == Slot(seq, source, target, pos) IN
        SubSeq(rest, 1, k) \o <<source>> \o SubSeq(rest, k + 1, Len(rest))

\* C2 as stated: once a reorder request of source S relative to target T, S # T
\* and both in the scope of the request, has been handled, every listing of
\* the scope is the former list with S moved immediately before or after T
\* and the other rows in their former order.
C2_ReorderMovesSource ==
    [][/\ \A u \in UserIds, s \in CatIds, t \in CatIds, pos \in Positions :
             ReorderCategory(Observed, u, s, t, pos)
                 /\ s # t /\ {s, t} \subseteq CategoriesOf(u)
             => OrderBySortOrder(CategoriesOf(u), categories)'
                    = {Move(SortedById(CategoriesOf(u), categories), s, t, pos)}
       /\ \A u \in UserIds, cat \in CatIds, s \in LinkIds, t \in LinkIds,
             pos \in Positions :
             ReorderLink(Observed, u, cat, s, t, pos)
                 /\ s # t /\ {s, t} \subseteq LinksOf(u, cat)
             => OrderBySortOrder(LinksOf(u, cat), links)'
                    = {Move(SortedById(LinksOf(u, cat), links), s, t, pos)}]_vars

\* the slot of source has no lower or no upper neighbour, or no integer lies
\* strictly between the ordinals of the two
NoRoom(seq, table, source, target, pos) ==
    LET rest == Remove(seq, source)
        k == Slot(seq, source, target, pos) IN
        \/ k = 0
        \/ k = Len(rest)
        \/ table[rest[k + 1]].sort_order - table[rest[k]].sort_order < 2

\* along seq the ordinals increase by one fixed step
EvenlySpaced(seq, table) ==
    Len(seq) >= 2 =>
        LET step == table[seq[2]].sort_order - table[seq[1]].sort_order IN
            /\ step > 0
            /\ \A i \in 1..(Len(seq) - 1) :
                  table[seq[i + 1]].sort_order - table[seq[i]].sort_order = step

\* C3 as stated: once a reorder request whose source is to go between two
\* neighbours without an integer between their ordinals, or to an end of the
\* scope, has been handled, the ordinals of the scope increase by one fixed
\* step along the new order (so none is a duplicate).
C3_CollisionRenumbersScope ==
    [][/\ \A u \in UserIds, s \in CatIds, t \in CatIds, pos \in Positions :
             ReorderCategory(Observed, u, s, t, pos)
                 /\ s # t /\ {s, t} \subseteq CategoriesOf(u)
                 /\ NoRoom(SortedById(CategoriesOf(u), categories), categories, s, t, pos)
             => EvenlySpaced(Move(SortedById(CategoriesOf(u), categories), s, t, pos),
                             categories')
       /\ \A u \in UserIds, cat \in CatIds, s \in LinkIds, t \in LinkIds,
             pos \in Positions :
             ReorderLink(Observed, u, cat, s, t, pos)
                 /\ s # t /\ {s, t} \subseteq LinksOf(u, cat)
                 /\ NoRoom(SortedById(LinksOf(u, cat), links), links, s, t, pos)
             => EvenlySpaced(Move(SortedById(LinksOf(u, cat), links), s, t, pos),
                             links')]_vars

\* C4 as stated: a reorder request whose source is its target, or whose source
\* or target is not in the scope of the request (a link reordered against a
\* link of another category), is rejected with the error InvalidReorder, which
\* is not the error NotFound, and no stored ordinal changes.
C4_InvalidReorderRejected ==
    [][/\ \A u \in UserIds, s \in CatIds, t \in CatIds, pos \in Positions :
             ReorderCategory(Observed, u, s, t, pos)
                 /\ (s = t \/ ~({s, t} \subseteq CategoriesOf(u)))
             => req'[Observed].status \notin {OK, NotFound} /\ UNCHANGED tables
       /\ \A u \in UserIds, cat \in CatIds, s \in LinkIds, t \in LinkIds,
             pos \in Positions :
             ReorderLink(Observed, u, cat, s, t, pos)
                 /\ (s = t \/ ~({s, t} \subseteq LinksOf(u, cat)))
             => req'[Observed].status \notin {OK, NotFound} /\ UNCHANGED tables]_vars

\* the drop is on the dragged entity itself: on its row, or on empty space
\* while it is the last of the list
OnSelf(dragging, item, seq) ==
    dragging # 0 /\ (item = dragging \/ (item = 0 /\ LastItem(seq) = dragging))

\* C6 as stated: a drop in a scope that holds fewer than two entities, or a
\* drop of an entity onto itself, sends no reorder request and changes no
\* stored sort_order, for categories and for links.  The scope is the stored
\* one: the categories of the page's user, the links of the selected category.
C6_NoRequestInSmallScope ==
    [][/\ \A item \in {0} \cup CatIds, position \in Positions :
             /\ handleCategoryDrop(item, position)
             /\ \/ Cardinality(CategoriesOf(token)) < 2
                \/ OnSelf(draggingCategoryId, item, pageCategories)
             => UNCHANGED <<fetches, tables>>
       /\ \A row \in {0} \cup LinkIds, position \in Positions :
             /\ handleLinkDrop(row, position)
             /\ \/ Cardinality(LinksOf(token, selectedCategoryId)) < 2
                \/ OnSelf(draggingLinkId, row, pageLinks)
             => UNCHANGED <<fetches, tables>>]_vars

\* C6 amended: a drag started while the list the page has loaded holds fewer
\* than two entities records no dragged entity; a drop with no dragged entity
\* recorded, or onto the dragged entity itself, sends no reorder request; none
\* of these steps changes a stored sort_order.  For categories and for links.
C6_NoRequestFromShortListOrOnSelf ==
    [][/\ \A item \in {0} \cup CatIds, onActions \in BOOLEAN :
             handleCategoryDragStart(item, onActions) /\ Len(pageCategories) < 2
             => draggingCategoryId' = 0 /\ UNCHANGED <<fetches, tables>>
       /\ \A item \in {0} \cup CatIds, position \in Positions :
             /\ handleCategoryDrop(item, position)
             /\ \/ draggingCategoryId = 0
                \/ OnSelf(draggingCategoryId, item, pageCategories)
             => UNCHANGED <<fetches, tables>>
       /\ \A row \in {0} \cup LinkIds, onActions \in BOOLEAN :
             handleLinkDragStart(row, onActions) /\ Len(pageLinks) < 2
             => draggingLinkId' = 0 /\ UNCHANGED <<fetches, tables>>
       /\ \A row \in {0} \cup LinkIds, position \in Positions :
             /\ handleLinkDrop(row, position)
             /\ \/ draggingLinkId = 0
                \/ OnSelf(draggingLinkId, row, pageLinks)
             => UNCHANGED <<fetches, tables>>]_vars

\* a drop has taken place on a page whose list, like the stored scope, holds
\* one category, and no reorder request is on its way
C6_Witness ==
    /\ dragSession = "categoryDropped"
    /\ Len(pageCategories) = 1
    /\ Cardinality(CategoriesOf(token)) = 1
    /\ fetches["reorderCategory"].pc = "none"
    /\ ~isCategoryReorderInFlight

\* C7: a well-formed update of a category or of a link whose id does not
\* exist, or exists but belongs to another user, matches zero rows, is
\* answered with 404 and leaves every stored row as it was.
C7_UpdateOfForeignOrMissingRow ==
    [][/\ \A u \in UserIds, id \in CatIds, sort \in SortOrders :
             UpdateCategory(Observed, u, id, TRUE, sort)
                 /\ ~(id \in DOMAIN categories /\ categories[id].user_id = u)
             => req'[Observed].status = NotFound /\ UNCHANGED tables
       /\ \A u \in UserIds, id \in LinkIds, cat \in CatIds, sort \in SortOrders :
             UpdateLinkSelect(Observed, u, id, cat, TRUE, sort)
                 /\ ~(id \in DOMAIN links /\ links[id].user_id = u)
             => req'[Observed].status \in {0, NotFound} /\ UNCHANGED tables
       /\ UpdateLinkWrite(Observed)
             /\ ~(req[Observed].id \in DOMAIN links
                     /\ links[req[Observed].id].user_id = req[Observed].user)
             => req'[Observed].status = NotFound /\ UNCHANGED tables]_vars

\* a link update that named a category of the caller and the link of another
\* user has been answered with 404
C7_Witness ==
    LET r == req[Observed] IN
        /\ r.pc = "done" /\ r.op = "updateLink" /\ r.status = NotFound
        /\ r.id \in DOMAIN links /\ links[r.id].user_id # r.user
        /\ r.cat \in DOMAIN categories /\ categories[r.cat].user_id = r.user

\* C8 as stated: a link update that names a category of the caller other than
\* the link's current category fails with 404 and writes nothing.
C8_CrossCategoryUpdateRejected ==
    [][UpdateLinkWrite(Observed)
          /\ req[Observed].id \in DOMAIN links
          /\ links[req[Observed].id].user_id = req[Observed].user
          /\ links[req[Observed].id].category_id # req[Observed].cat
       => req'[Observed].status = NotFound /\ UNCHANGED tables]_vars

\* C8 as amended: the update of a link is answered with 404 and writes nothing
\* when the named category or the link is not the caller's; when both are the
\* caller's it succeeds, and the link then carries the named category, the
\* current one or another, and the supplied sort_order, every other row
\* being left as it was.
C8_UpdateMovesOwnLinkOnly ==
    [][/\ \A u \in UserIds, id \in LinkIds, cat \in CatIds, sort \in SortOrders :
             UpdateLinkSelect(Observed, u, id, cat, TRUE, sort)
             => /\ UNCHANGED tables
                /\ ~(cat \in DOMAIN categories /\ categories[cat].user_id = u)
                       => req'[Observed].status = NotFound
       /\ UpdateLinkWrite(Observed) =>
             LET r == req[Observed] IN
             IF r.id \in DOMAIN links /\ links[r.id].user_id = r.user
             THEN /\ req'[Observed].status = OK
                  /\ categories[r.cat].user_id = r.user
                  /\ links' = [links EXCEPT ![r.id].category_id = r.cat,
                                            ![r.id].sort_order = r.sort]
                  /\ UNCHANGED categories
             ELSE req'[Observed].status = NotFound /\ UNCHANGED tables]_vars

\* a link has been moved by its owner into another of the owner's categories
C8_Witness ==
    LET r == req[Observed] IN
        /\ r.pc = "done" /\ r.op = "updateLink" /\ r.status = OK
        /\ links[r.id].category_id = r.cat
        /\ \E c \in CategoriesOf(r.user) : c # r.cat

\* C9 as stated: a listing of the categories of a user, or of the links of one
\* of the user's categories, returns the rows sorted by sort_order ascending,
\* rows with equal sort_order by id ascending.
C9_ListBreaksTiesById ==
    [][/\ \A u \in UserIds :
             ListCategories(Observed, u)
             => req'[Observed].data = SortedById(CategoriesOf(u), categories)
       /\ \A u \in UserIds, cat \in CatIds :
             ListLinks(Observed, u, cat)
             => req'[Observed].data = SortedById(LinksOf(u, cat), links)]_vars

\* the links that reference category c
LinksIn(c) == {l \in DOMAIN links : links[l].category_id = c}

\* C10: cascade delete.  When the delete of category C by its owner is
\* answered with success no link row references C and C is not a row of
\* categories; the statements of the delete leave every other category and
\* every link of another category as they were, and the id of a deleted
\* category is never the id of a row again.
C10_CascadeDelete ==
    [][/\ DeleteCategoryRow(Observed) =>
             LET c == req[Observed].id IN
                 /\ req'[Observed].status = OK
                 /\ c \notin DOMAIN categories'
                 /\ LinksIn(c)' = {}
                 /\ categories' = Restrict(categories, DOMAIN categories \ {c})
                 /\ links' = Restrict(links, DOMAIN links \ LinksIn(c))
       /\ DeleteCategoryLinks(Observed) =>
             /\ categories' = categories
             /\ links' = Restrict(links, DOMAIN links \ LinksIn(req[Observed].id))
       /\ \A c \in CatIds :
             (c < nextCatId /\ c \notin DOMAIN categories) => c \notin DOMAIN categories'
      ]_vars

\* a category that held a link has been deleted by its owner while another
\* category holds a link
C10_Witness ==
    LET r == req[Observed] IN
        /\ r.pc = "done" /\ r.op = "deleteCategory" /\ r.status = OK
        /\ r.id \notin DOMAIN categories
        /\ \E l \in DOMAIN links : links[l].category_id # r.id
        /\ Cardinality(DOMAIN links) < nextLinkId - 1

\* C11: category deletion is atomic.  Once a delete of category C has removed
\* the links of C and until it has removed the row of C, no other request runs
\* a statement: the next statement of the Worker is the delete of the row.
C11_DeleteCategoryAtomic ==
    [][\A p \in Reqs :
          req[p].op = "deleteCategory" /\ req[p].pc = "deleteRow"
          => DeleteCategoryRow(p) \/ Respond(Observed)]_vars

NotOwnCategory(u, cat) == cat \notin DOMAIN categories \/ categories[cat].user_id # u

\* C13: a link create or a link update that names a category_id that does not
\* exist or is not owned by the caller is answered NotFound; it inserts no row
\* and leaves every existing link as it is.  (A body that lacks category_id,
\* name or url is answered 400 before the category is looked at.)
C13_ForeignCategoryRejected ==
    [][/\ \A u \in UserIds, cat \in CatIds, sort \in SortOrders :
             CreateLinkSelect(Observed, u, cat, TRUE, sort) /\ NotOwnCategory(u, cat)
             => /\ req'[Observed].pc = "done"
                /\ req'[Observed].status = NotFound
                /\ UNCHANGED <<tables, nextLinkId>>
       /\ \A u \in UserIds, id \in LinkIds, cat \in CatIds, sort \in SortOrders :
             UpdateLinkSelect(Observed, u, id, cat, TRUE, sort) /\ NotOwnCategory(u, cat)
             => /\ req'[Observed].pc = "done"
                /\ req'[Observed].status = NotFound
                /\ UNCHANGED <<tables, nextLinkId>>
       /\ \A u \in UserIds :
             (CreateLinkInsert(Observed) \/ UpdateLinkWrite(Observed))
             /\ req[Observed].user = u /\ NotOwnCategory(u, req[Observed].cat)
             => UNCHANGED tables]_vars

\* a link create that names the category of another user has been answered
\* NotFound while the caller owns a category of their own
C13_Witness ==
    LET r == req[Observed] IN
        /\ r.pc = "done" /\ r.op = "createLink" /\ r.status = NotFound
        /\ r.cat \in DOMAIN categories /\ categories[r.cat].user_id # r.user
        /\ CategoriesOf(r.user) # {}

\* the link addressed by a request of u is no row, or the row of another user
NotOwnLink(u, id) == id \notin DOMAIN links \/ links[id].user_id # u

\* the response in slot Observed is the 404 of its route (one message per
\* route: '... not found or access denied') with no data
IsNotFound(r) == r.pc = "done" /\ r.status = NotFound /\ r.data = << >>

\* C14: NotFound does not tell absence from foreign ownership.  A category
\* update, a category delete, a link update and a link delete that address an
\* id get the same answer, the 404 of the route, and write nothing, whether no
\* row has that id or the row belongs to another user.
C14_NotFoundIndistinguishable ==
    [][/\ \A u \in UserIds, id \in CatIds, sort \in SortOrders :
             /\ UpdateCategory(Observed, u, id, TRUE, sort) \/ DeleteCategorySelect(Observed, u, id)
             /\ NotOwnCategory(u, id)
             => IsNotFound(req'[Observed]) /\ UNCHANGED tables
       /\ \A u \in UserIds, id \in LinkIds :
             DeleteLink(Observed, u, id) /\ NotOwnLink(u, id)
             => IsNotFound(req'[Observed]) /\ UNCHANGED tables
       /\ UpdateLinkWrite(Observed) /\ NotOwnLink(req[Observed].user, req[Observed].id)
             => IsNotFound(req'[Observed]) /\ UNCHANGED tables]_vars

\* a delete of a category of another user has been answered 404 while another
\* category id is the id of no row
C14_Witness ==
    LET r == req[Observed] IN
        /\ IsNotFound(r) /\ r.op = "deleteCategory"
        /\ r.id \in DOMAIN categories /\ categories[r.id].user_id # r.user
        /\ \E c \in CatIds : c \notin DOMAIN categories


\* ---------------------------------------------------------------- C15
CeilDiv(a, b) == (a + b - 1) \div b
Max(a, b) == IF a >= b THEN a ELSE b
Min(a, b) == IF a <= b THEN a ELSE b
TotalPages(total) == Max(1, CeilDiv(total, LINKS_PER_PAGE))
ClampPage(pg, total) == Min(Max(pg, 1), TotalPages(total))

\* C15: the answer to a paged link listing of the caller's category cat,
\* asked for page pg with LINKS_PER_PAGE links a page, is a success that
\* reports totalPages = max(1, ceil(total / perPage)) and
\* page = min(max(pg, 1), totalPages), total being the number of the caller's
\* links in cat; a page out of range is answered, not refused
C15_PagedMetadata ==
    [][\A u \in UserIds, cat \in CatIds, pg \in Pages :
          ListAdminLinks(Observed, u, cat, pg)
          => LET r == req'[Observed]
                 total == Cardinality(LinksOf(u, cat))
             IN  /\ r.status = OK
                 /\ "pagination" \in DOMAIN r.data
                 /\ r.data.pagination.totalPages = TotalPages(total)
                 /\ r.data.pagination.page = ClampPage(pg, total)]_vars


\* ---------------------------------------------------------------- C16
\* positions (pg-1)*perPage+1 .. min(pg*perPage, total) of an ordered list
Window(list, pg) ==
    SubSeq(list, (pg - 1) * LINKS_PER_PAGE + 1, Min(pg * LINKS_PER_PAGE, Len(list)))

\* C16: the items answered to a paged link listing of category cat are the
\* window of the answered page cut from the caller's links of cat in
\* ascending sort_order: in order, and no link of another category or user
C16_PagedWindow ==
    [][\A u \in UserIds, cat \in CatIds, pg \in Pages :
          ListAdminLinks(Observed, u, cat, pg)
          => \E list \in OrderBySortOrder(LinksOf(u, cat), links) :
                req'[Observed].data.items = Window(list, ClampPage(pg, Len(list)))]_vars


\* ---------------------------------------------------------------- C17
\* C17: the grouped listing of user u has its groups in ascending category
\* sort_order and, inside a group, the links in ascending link sort_order;
\* every link of u is there exactly once, under the group of its
\* category_id, and every link listed is a link of u
C17_GroupedListing ==
    [][\A u \in UserIds :
          ListGroupedLinks(Observed, u)
          => LET g == req'[Observed].data
                 Places(l) == {<<i, a>> \in (1..Len(g)) \X (1..MaxLinks + 1) :
                                  a <= Len(g[i].links) /\ g[i].links[a] = l}
             IN  /\ \A i, j \in 1..Len(g) :
                       i < j => /\ g[i].sort_order <= g[j].sort_order
                                /\ g[i].id # g[j].id
                 /\ \A i \in 1..Len(g) :
                       /\ g[i].sort_order = categories[g[i].id].sort_order
                       /\ \A a, b \in 1..Len(g[i].links) :
                             a < b => links[g[i].links[a]].sort_order
                                        <= links[g[i].links[b]].sort_order
                       /\ \A a \in 1..Len(g[i].links) :
                             /\ g[i].links[a] \in DOMAIN links
                             /\ links[g[i].links[a]].user_id = u
                 /\ \A l \in DOMAIN links :
                       links[l].user_id = u
                       => /\ Cardinality(Places(l)) = 1
                          /\ \A pl \in Places(l) : g[pl[1]].id = links[l].category_id]_vars

\* a listing of two groups whose order is that of sort_order, against the ids
C17_Witness ==
    LET r == req[Observed]
    IN  /\ r.pc = "done" /\ r.op = "listGroupedLinks" /\ r.user \in UserIds
        /\ Len(r.data) = 2
        /\ r.data[1].id > r.data[2].id
        /\ r.data[1].sort_order < r.data[2].sort_order


\* ---------------------------------------------------------------- C18
\* a reorder request of kind k of the page is sent and not yet answered
InFlight(k) == fetches[k].pc # "none"

\* C18: the flag of a kind is up exactly while a reorder request of that
\* kind is unanswered, and a drop of that kind made meanwhile sends nothing:
\* the request in flight stays the only one of its kind
C18_OneReorderInFlight ==
    /\ [](/\ isCategoryReorderInFlight <=> InFlight("reorderCategory")
          /\ isReorderInFlight <=> InFlight("reorderLink"))
    /\ [][/\ \A item \in CatIds \cup {0}, position \in Positions :
                InFlight("reorderCategory") /\ handleCategoryDrop(item, position)
                => UNCHANGED <<fetches, isCategoryReorderInFlight>>
          /\ \A row \in LinkIds \cup {0}, position \in Positions :
                InFlight("reorderLink") /\ handleLinkDrop(row, position)
                => UNCHANGED <<fetches, isReorderInFlight>>]_vars

\* a category reorder request is unanswered and another category of the
\* list is being dragged over a list that would take the drop
C18_Witness ==
    /\ InFlight("reorderCategory")
    /\ dragSession = "category"
    /\ draggingCategoryId # 0
    /\ draggingCategoryId # fetches["reorderCategory"].body[1]
    /\ Len(pageCategories) >= 2


\* ---------------------------------------------------------------- C19
\* the entity the page shows last in a list that shows one
LastShown(seq) == seq[Len(seq)]

\* C19: a drop on empty space does what a drop on the lower half of the
\* last entity of the list does: the same reorder request, or none in both
\* cases, and the same state of the page; for categories and for links
C19_EmptySpaceIsAfterLast ==
    [][/\ \A position \in Positions :
             pageCategories # << >> /\ handleCategoryDrop(0, position)
             => handleCategoryDrop(LastShown(pageCategories), "after")
       /\ pageCategories # << >> /\ handleCategoryDrop(LastShown(pageCategories), "after")
          => handleCategoryDrop(0, "after")
       /\ \A position \in Positions :
             pageLinks # << >> /\ handleLinkDrop(0, position)
             => handleLinkDrop(LastShown(pageLinks), "after")
       /\ pageLinks # << >> /\ handleLinkDrop(LastShown(pageLinks), "after")
          => handleLinkDrop(0, "after")]_vars

\* a drop has sent the request that moves a category after the last one shown
C19_Witness ==
    /\ dragSession = "categoryDropped"
    /\ pageCategories # << >>
    /\ fetches["reorderCategory"].pc = "sent"
    /\ fetches["reorderCategory"].body[2] = LastShown(pageCategories)
    /\ fetches["reorderCategory"].body[3] = "after"


\* ---------------------------------------------------------------- C20
\* C20: an update of a category or link by its owner is one write of that
\* one row, which leaves the row with the sort_order of the request; every
\* other row keeps its sort_order, whatever other update is under way, so
\* that of two updates of one row the one that writes last decides the
\* stored sort_order
C20_LastWriteWins ==
    [][\A p \in Reqs :
          /\ \A u \in UserIds, id \in CatIds, sort \in SortOrders :
                UpdateCategory(p, u, id, TRUE, sort)
                => /\ links' = links
                   /\ categories' = IF NotOwnCategory(u, id) THEN categories
                                    ELSE [categories EXCEPT ![id].sort_order = sort]
          /\ UpdateLinkWrite(p)
             => LET r == req[p]
                    q == CHOOSE o \in Reqs : o # p
                IN  /\ categories' = categories
                    /\ DOMAIN links' = DOMAIN links
                    /\ \A l \in DOMAIN links :
                          l # r.id => links'[l] = links[l]
                    /\ ~NotOwnLink(r.user, r.id) /\ ~NotOwnCategory(r.user, r.cat)
                       => /\ links'[r.id].sort_order = r.sort
                          /\ req[q].op = "updateLink" /\ req[q].id = r.id
                             => links'[r.id].sort_order \in {r.sort, req[q].sort}
                    /\ NotOwnLink(r.user, r.id) => links' = links]_vars

\* two updates of one link by its owner, with different sort_order, have
\* both passed the ownership check and neither has written
C20_Witness ==
    /\ \A p \in Reqs : req[p].op = "updateLink" /\ req[p].pc = "update"
    /\ req[Observed].id = req[Concurrent].id
    /\ req[Observed].user = req[Concurrent].user
    /\ req[Observed].sort # req[Concurrent].sort
    /\ ~NotOwnLink(req[Observed].user, req[Observed].id)
    /\ Cardinality(DOMAIN links) = MaxLinks


\* ---------------------------------------------------------------- C21
\* C21: when the last statement of a delete of user X by the super admin
\* has run, X is no row of table users and no category and no link has
\* user_id = X, whatever X's own create requests did in between
C21_UserDeleteCascades ==
    [][\A p \in Reqs :
          DeleteUserRow(p)
          => LET X == req[p].id
             IN  /\ X \notin DOMAIN users'
                 /\ \A c \in DOMAIN categories' : categories'[c].user_id # X
                 /\ \A l \in DOMAIN links' : links'[l].user_id # X]_vars

\* a delete of a user has succeeded and the categories and the link that
\* the user had created are gone
C21_Witness ==
    LET r == req[Observed]
    IN  /\ r.pc = "done" /\ r.op = "deleteUser" /\ r.status = OK
        /\ r.id \notin DOMAIN users
        /\ nextCatId = MaxCats + 1 /\ nextLinkId > 1
        /\ categories = << >> /\ links = << >>


\* ---------------------------------------------------------------- C22
\* an error response: success false
IsError(status) == status \in {BadRequest, Unauthorized, Forbidden, NotFound, ServerError}

\* C22: the row of user 1 is always there with the status it started with,
\* and a request that would delete it or that carries a status for it is
\* answered with an error
C22_SuperAdminProtected ==
    /\ [](1 \in DOMAIN users /\ users[1].status = 1)
    /\ [][\A u \in UserIds :
             /\ DeleteUserStart(Observed, u, 1)
                => req'[Observed].pc = "done" /\ IsError(req'[Observed].status)
             /\ \A status \in StatusInputs \ {Undefined}, new_password \in PasswordInputs :
                   UpdateUserStart(Observed, u, 1, status, new_password)
                   => req'[Observed].pc = "done" /\ IsError(req'[Observed].status)]_vars

\* the super admin's request to disable user 1 has been refused
C22_Witness ==
    LET r == req[Observed]
    IN  /\ r.pc = "done" /\ r.op = "updateUser" /\ r.user = SuperAdminId
        /\ r.id = 1 /\ r.body.status = 0
        /\ r.status = BadRequest
        /\ users[1].status = 1


\* ---------------------------------------------------------------- C23
\* C23: a list, create, update or delete request on /api/admin/users of an
\* authenticated user other than user 1 is answered 403 and changes no
\* user, category or link row
C23_UserManagementSuperAdminOnly ==
    [][\A u \in UserIds \ {1} :
          \/ ListUsers(Observed, u)
          \/ \E username \in UsernameInputs, password \in PasswordInputs :
                CreateUserSelect(Observed, u, username, password)
          \/ \E id \in TargetIds, status \in StatusInputs, new_password \in PasswordInputs :
                UpdateUserStart(Observed, u, id, status, new_password)
          \/ \E id \in TargetIds : DeleteUserStart(Observed, u, id)
          => /\ req'[Observed].pc = "done"
             /\ req'[Observed].status = Forbidden
             /\ UNCHANGED <<users, categories, links>>]_vars

\* user 2 has asked to delete a user that exists, who owns a link, and has
\* been refused
C23_Witness ==
    LET r == req[Observed]
    IN  /\ r.pc = "done" /\ r.op = "deleteUser" /\ r.user = 2
        /\ r.id \in DOMAIN users /\ r.id # 2
        /\ \E l \in DOMAIN links : links[l].user_id = r.id
        /\ r.status = Forbidden


\* ---------------------------------------------------------------- C24
\* the request carries no Bearer token, or one that is not three parts
\* signed with the Worker's secret, or one whose exp is past at second now
NotAuthenticated(auth, now) ==
    \/ auth.scheme # "Bearer"
    \/ auth.token.parts # 3
    \/ auth.token.key # "JWT_SECRET"
    \/ auth.token.exp < now

stored == <<users, nextUserId, categories, links, nextCatId, nextLinkId>>

\* C24 as claimed: every request to a path under /api/admin/ that is not
\* authenticated is answered 401, by fetch itself, and changes no stored row
C24_AdminRequiresToken ==
    [][\A method \in {"OPTIONS", "other"}, auth \in AuthHeaders, now \in Times :
          fetchAdmin(Observed, method, auth, now) /\ NotAuthenticated(auth, now)
          => /\ req'[Observed].op = "unauthorized"
             /\ req'[Observed].status = Unauthorized
             /\ UNCHANGED stored]_vars

\* C24 amended: such a request is answered 401 by fetch itself unless its
\* method is OPTIONS, which fetch answers 204 whatever the request carries;
\* in both cases no handler runs and no stored row changes
C24_AdminRequiresTokenButPreflight ==
    [][\A method \in {"OPTIONS", "other"}, auth \in AuthHeaders, now \in Times :
          fetchAdmin(Observed, method, auth, now)
          => /\ method # "OPTIONS" /\ NotAuthenticated(auth, now)
                => /\ req'[Observed].op = "unauthorized"
                   /\ req'[Observed].status = Unauthorized
                   /\ UNCHANGED stored
             /\ method = "OPTIONS"
                => /\ req'[Observed].op = "preflight"
                   /\ req'[Observed].status = NoContent
                   /\ UNCHANGED stored]_vars

\* a request with a well signed token that has expired has been answered
\* 401 while the store holds a category
C24_Witness ==
    LET r == req[Observed]
    IN  /\ r.pc = "done" /\ r.op = "unauthorized" /\ r.status = Unauthorized
        /\ r.body.auth.scheme = "Bearer"
        /\ r.body.auth.token.parts = 3
        /\ r.body.auth.token.key = "JWT_SECRET"
        /\ r.body.auth.token.exp < r.body.now
        /\ categories # << >>


\* ---------------------------------------------------------------- C25
\* C25: the user_id of every category row and of every link row is the id
\* of a row of table users, in every state, the states between the
\* statements of a user's deletion and of that user's create requests included
C25_OwnersExist ==
    /\ \A c \in DOMAIN categories : categories[c].user_id \in DOMAIN users
    /\ \A l \in DOMAIN links : links[l].user_id \in DOMAIN users

\* user 2 has been deleted while a link create request of user 2 had passed
\* its ownership check and has not inserted yet
C25_Witness ==
    /\ 2 \notin DOMAIN users
    /\ req[Concurrent].op = "createLink" /\ req[Concurrent].pc = "insert"
    /\ req[Concurrent].user = 2
    /\ req[Observed].op = "deleteUser" /\ req[Observed].pc = "done"


\* ---------------------------------------------------------------- C26
\* a new_password that PUT /api/admin/users/:id refuses with 400
TooShort(new_password) == new_password # "" /\ Length(new_password) < 6

\* C26: a user update that is answered with an error writes nothing to
\* table users: neither the statement that answers the error nor, for a
\* request whose new_password is too short and which is therefore answered
\* 400, any statement before it
C26_FailedUserUpdateWritesNothing ==
    [][/\ \A u \in UserIds, id \in TargetIds, status \in StatusInputs,
             new_password \in PasswordInputs :
             UpdateUserStart(Observed, u, id, status, new_password)
             => /\ TooShort(new_password) => UNCHANGED users
                /\ req'[Observed].pc = "done" /\ IsError(req'[Observed].status)
                   => UNCHANGED users
       /\ UpdateUserPasswordStep(Observed)
          => /\ TooShort(req[Observed].body.new_password)
                => req'[Observed].status = BadRequest
             /\ IsError(req'[Observed].status) => UNCHANGED users]_vars


C27_ReorderFlagReleased ==
    /\ isCategoryReorderInFlight ~> ~isCategoryReorderInFlight
    /\ isReorderInFlight ~> ~isReorderInFlight

\* a reorder request is on its way with its flag up, the drag already ended
C27_Witness ==
    /\ isCategoryReorderInFlight
    /\ fetches["reorderCategory"].pc = "sent"
    /\ dragSession = "none"


\* ---------------------------------------------------------------- C29
\* C29: changePage(delta) changes linkPagination.page or sends a load only
\* when a category is selected and page + delta is within 1..totalPages;
\* otherwise the page, the stored pages and the displayed links stay as
\* they are and no request is sent
C29_ChangePageWithinRange ==
    [][\A delta \in {-1, 1} :
          changePage(delta, MaxLoads)
          => LET moves == /\ selectedCategoryId # 0
                          /\ linkPagination.page + delta >= 1
                          /\ linkPagination.page + delta <= linkPagination.totalPages
             IN  /\ linkPagination'.page # linkPagination.page \/ linkLoads' # linkLoads
                    => moves
                 /\ ~moves => UNCHANGED <<linkPagination, categoryPage, pageLinks,
                                          linkLoads, fetches>>]_vars

\* the page went from 2 to 1 while the load of page 2 is unanswered, and
\* the load of page 1 of the same category has been sent
C29_Witness ==
    /\ Len(linkLoads) = 2
    /\ linkLoads[1].category_id = selectedCategoryId
    /\ linkLoads[2].category_id = selectedCategoryId
    /\ linkLoads[1].page = 2
    /\ linkLoads[2].page = 1
    /\ linkPagination.page = 1
    /\ categoryPage[selectedCategoryId] = 1


\* ---------------------------------------------------------------- C28
\* C28: when loads have overlapped and the answer handled last is the one to
\* a call made for another category than the one now selected, the links
\* displayed are still the window of linkPagination.page cut from the links
\* of the selected category in ascending sort_order, linkPagination counts
\* that category's links, and the page stored for the selected category is
\* the page loaded
C28_SettledLoadsShowSelection ==
    [][\A i \in 1..MaxLoads :
          /\ loadLinksAnswered(i)
          /\ linkLoads' = << >>
          /\ selectedCategoryId # 0
          /\ linkLoads[i].category_id # selectedCategoryId
          => /\ \E list \in OrderBySortOrder(LinksOf(token, selectedCategoryId), links) :
                   /\ pageLinks' = Window(list, linkPagination'.page)
                   /\ linkPagination'.total = Len(list)
                   /\ linkPagination'.totalPages = TotalPages(Len(list))
             /\ selectedCategoryId \in DOMAIN categoryPage'
             /\ categoryPage'[selectedCategoryId] = linkPagination'.page]_vars

====
